---- MODULE Spec2Model ----
(***************************************************************************)
(* Model of gentro-ui's metadata Fetcher (services/games/metadata/         *)
(* fetcher.go) and of the emulator resolution engine (emulator service     *)
(* and the database queries it runs).                                      *)
(*                                                                         *)
(* Fetcher: the channel, the RWMutex, the WaitGroup and every goroutine    *)
(* position are state.  A section of code that runs with f.mu write-locked *)
(* is one action (nothing else that takes the lock can interleave); the    *)
(* only section that blocks while holding the lock is Queue's select,      *)
(* which holds the read lock, so a request in state "sending" is a reader  *)
(* and every write-locked action is disabled while a reader exists.        *)
(***************************************************************************)
EXTENDS Integers, Sequences, FiniteSets, TLC

\* ---------------------------------------------------------------- bounds
\* capacity of the queue channel in the model (fetcher.go:46 makes it 100)
QueueCap == 1
\* number of Queue() calls made in a behaviour
MaxReq == 2
\* number of resolvers that may be registered before Start
MaxResolvers == 2
\* number of threads that call Stop()
NumStoppers == 2

\* NewFetcher(2, ...) in games.go:76
NumWorkers == 2

InstanceIDs == {"a", "b"}
Reqs == 1..MaxReq
Workers == 1..NumWorkers
Stoppers == 1..NumStoppers

VARIABLES
    \* ---- Fetcher fields
    queue,        \* buffered content of f.queue (request ids, FIFO)
    closed,       \* f.queue has been closed
    isRunning,    \* f.isRunning
    cancelMap,    \* f.cancelMap: instance id -> request whose cancel func is stored, 0 = no entry
    wg,           \* f.wg counter
    nResolvers,   \* len(f.resolvers)
    onResolve,    \* f.onResolve != nil
    \* ---- goroutines
    wpc,          \* position of each worker goroutine
    wreq,         \* request a worker is processing, 0 = none
    widx,         \* index of the resolver the worker's loop is at
    spc,          \* position of each Stop() caller
    \* ---- requests and contexts
    reqInst,      \* req.InstanceID of each Queue() call
    reqState,     \* where each request is
    ctxDone,      \* ctx.Done() of the context processRequest made for the request is closed
    \* ---- observations
    tracing,      \* the resolver calls of this behaviour are recorded in log
    log,          \* per request: resolver invocations and their results, in order
    nProc,        \* per request: how many times a worker received it from the queue
    started,      \* Start() has spawned workers at least once
    shutdownDone, \* a Stop() that performed the shutdown has returned
    lateStop,     \* Stop() was called after such a Stop() had returned
    queuedAtStop, \* the requests that were in the queue when Stop() shut the fetcher down
    cancelledInQueue, \* the requests that were in the queue when Cancel() of their instance was called (when recording)
    panicked      \* the process panicked (send on / close of a closed channel)

VARIABLES
    \* ---- the database tables the emulator service works on
    emulators,          \* rows of table emulators
    emulatorCores,      \* rows of table emulator_cores
    platformEmulators,  \* rows of table platform_emulators
    instanceSettings,   \* rows of table instance_emulator_settings
    \* ---- observation
    resolved,           \* the last ResolveEmulator call and what it returned
    lastPass            \* the last DiscoverAvailable pass (when recording)

evars == <<emulators, emulatorCores, platformEmulators, instanceSettings, resolved, lastPass>>

VARIABLES
    \* ---- a BuildCommand call
    cmdIn,              \* its arguments and $HOME
    built               \* what it returned

VARIABLES
    \* ---- monitorGameProcess
    monTick,            \* number of ticks the loop has received
    hasBeenRunning,     \* its local hasBeenRunning
    lastSeenRunning,    \* its local lastSeenRunning, as a clock reading
    monEnded,           \* the function has returned
    events,             \* the launch statuses it emitted, in order
    \* ---- observation
    pattern             \* the probe results so far, summarised

mvars == <<monTick, hasBeenRunning, lastSeenRunning, monEnded, events, pattern>>

VARIABLES
    \* ---- emulated.Source
    emulatorAvailabilityCache, \* platform -> "yes", "no" or NotCached
    populating,         \* the platforms populateEmulatorAvailabilityCache has still to visit
    mapWrite,           \* the map assignment in progress
    mapRead,            \* the map lookup in progress
    \* ---- observation
    hasEmulator         \* what the last getEmulatorAvailabilityForPlatform returned

avars == <<emulatorAvailabilityCache, populating, mapWrite, mapRead, hasEmulator>>

VARIABLES
    \* ---- package config
    files,              \* path -> the config file's text, or NoFile
    defaultConfig,      \* the package variable defaultConfig (its ExcludeTools)
    managers,           \* the Managers NewManager returned, each with its mutex
    cfgCall,            \* caller -> the NewManager / SetFilters call it is in
    crashed,            \* the runtime has aborted the process
    \* ---- observation
    lastSet,            \* path -> <<filters>> of the SetFilters that last returned nil
    cfgLast             \* the last NewManager call and what it produced

gvars == <<files, defaultConfig, managers, cfgCall, crashed, lastSet, cfgLast>>

VARIABLES
    \* ---- GamesService.Launch
    launchOf,           \* the instance Launch was called for
    launchPc,           \* where the launch is
    launchStatuses,     \* the launch statuses emitted, in order
    procMonitor         \* the goroutine of Source.MonitorProcess

hvars == <<launchOf, launchPc, launchStatuses, procMonitor>>

VARIABLES
    \* ---- GamesService and its database
    metadataStatus,     \* instance -> state of the instance's persisted metadata status
    artJobs             \* instance -> running goroutines of onMetadataResolved

svars == <<metadataStatus, artJobs>>

xvars == <<avars, gvars, hvars, svars>>

lvars == <<cmdIn, built, mvars, xvars>>

fvars == <<tracing, queue, closed, isRunning, cancelMap, wg, nResolvers, onResolve,
           wpc, wreq, widx, spc, reqInst, reqState, ctxDone,
           log, nProc, started, shutdownDone, lateStop, queuedAtStop, cancelledInQueue, panicked>>

vars == <<fvars, evars, lvars>>

\* ------------------------------------------------------------- helpers
Terminal == {"resolved", "exhausted", "cancelled"}

\* f.mu is read-locked by every Queue() call that blocks in its select
Readers == {r \in Reqs : reqState[r] = "sending"}

LockIgnoresReaders == TRUE

\* f.mu.Lock() can be acquired
CanLock == Readers = {}

LogEntry(i, op) == [res |-> i, op |-> op]

\* log of request r extended by the entries es (when recording)
Logged(r, es) == [log EXCEPT ![r] = IF tracing THEN @ \o es ELSE @]

\* NewFetcher + zero values
FetcherInit ==
    /\ queue = <<>>
    /\ closed = FALSE
    /\ isRunning = FALSE
    /\ cancelMap = [i \in InstanceIDs |-> 0]
    /\ wg = 0
    /\ nResolvers = 0
    /\ onResolve = FALSE
    /\ wpc = [w \in Workers |-> "none"]
    /\ wreq = [w \in Workers |-> 0]
    /\ widx = [w \in Workers |-> 0]
    /\ spc = [c \in Stoppers |-> "idle"]
    /\ reqInst = [r \in Reqs |-> "none"]
    /\ reqState = [r \in Reqs |-> "new"]
    /\ ctxDone = [r \in Reqs |-> FALSE]
    /\ log = [r \in Reqs |-> <<>>]
    /\ nProc = [r \in Reqs |-> 0]
    /\ started = FALSE
    /\ shutdownDone = FALSE
    /\ lateStop = FALSE
    /\ queuedAtStop = {}
    /\ cancelledInQueue = {}
    /\ panicked = FALSE

\* ------------------------------------------------------- construction
RegisterResolver ==
    /\ ~panicked
    /\ ~started
    /\ nResolvers < MaxResolvers
    /\ nResolvers' = nResolvers + 1
    /\ UNCHANGED <<queue, closed, isRunning, cancelMap, wg, onResolve,
                   wpc, wreq, widx, spc, reqInst, reqState, ctxDone,
                   log, nProc, started, shutdownDone, lateStop, queuedAtStop, cancelledInQueue, panicked>>

SetOnResolveCallback ==
    /\ ~panicked
    /\ ~started
    /\ ~onResolve
    /\ onResolve' = TRUE
    /\ UNCHANGED <<queue, closed, isRunning, cancelMap, wg, nResolvers,
                   wpc, wreq, widx, spc, reqInst, reqState, ctxDone,
                   log, nProc, started, shutdownDone, lateStop, queuedAtStop, cancelledInQueue, panicked>>

\* ------------------------------------------------------------- Start
\* The worker goroutines of an earlier Start have all returned (the model
\* has NumWorkers goroutine slots).
Start ==
    /\ ~panicked
    /\ CanLock
    /\ ~isRunning
    /\ \A w \in Workers : wpc[w] \in {"none", "exited"}
    /\ isRunning' = TRUE
    /\ wg' = wg + NumWorkers
    /\ wpc' = [w \in Workers |-> "idle"]
    /\ started' = TRUE
    /\ UNCHANGED <<queue, closed, cancelMap, nResolvers, onResolve,
                   wreq, widx, spc, reqInst, reqState, ctxDone,
                   log, nProc, shutdownDone, lateStop, queuedAtStop, cancelledInQueue, panicked>>

\* -------------------------------------------------------------- Stop
\* Lock; if !isRunning {Unlock; return}; isRunning = false; cancel every
\* handle; cancelMap = new map; Unlock.  The calling threads are
\* interchangeable: the lowest-numbered one that has not called yet calls.
StopNeverReturnsEarly == FALSE

\* if !f.isRunning { f.mu.Unlock(); return }
StopReturnsEarly == ~isRunning

StopEnter(c) ==
    /\ ~panicked
    /\ spc[c] \in {"idle", "returned"}
    /\ \A d \in Stoppers : d < c => spc[d] # "idle"
    /\ CanLock
    /\ lateStop' = (lateStop \/ shutdownDone)
    /\ IF StopReturnsEarly
         THEN /\ spc' = [spc EXCEPT ![c] = "returned"]
              /\ UNCHANGED <<isRunning, ctxDone, cancelMap, queuedAtStop>>
         ELSE /\ isRunning' = FALSE
              /\ ctxDone' = [r \in Reqs |->
                               IF \E i \in InstanceIDs : cancelMap[i] = r
                                 THEN TRUE ELSE ctxDone[r]]
              /\ cancelMap' = [i \in InstanceIDs |-> 0]
              /\ spc' = [spc EXCEPT ![c] = "close"]
              /\ queuedAtStop' = {r \in Reqs : reqState[r] = "queued"}
    /\ UNCHANGED <<queue, closed, wg, nResolvers, onResolve, wpc, wreq, widx,
                   reqInst, reqState, log, nProc, started, shutdownDone,
                   cancelledInQueue, panicked>>

\* close(f.queue): closing a closed channel panics
StopClose(c) ==
    /\ ~panicked
    /\ spc[c] = "close"
    /\ IF closed
         THEN /\ panicked' = TRUE
              /\ UNCHANGED <<closed, spc>>
         ELSE /\ closed' = TRUE
              /\ spc' = [spc EXCEPT ![c] = "wait"]
              /\ UNCHANGED panicked
    /\ UNCHANGED <<queue, isRunning, cancelMap, wg, nResolvers, onResolve,
                   wpc, wreq, widx, reqInst, reqState, ctxDone,
                   log, nProc, started, shutdownDone, lateStop, queuedAtStop, cancelledInQueue>>

\* f.wg.Wait() returns, then Stop returns
StopWait(c) ==
    /\ ~panicked
    /\ spc[c] = "wait"
    /\ wg = 0
    /\ spc' = [spc EXCEPT ![c] = "returned"]
    /\ shutdownDone' = TRUE
    /\ UNCHANGED <<queue, closed, isRunning, cancelMap, wg, nResolvers, onResolve,
                   wpc, wreq, widx, reqInst, reqState, ctxDone,
                   log, nProc, started, lateStop, queuedAtStop, cancelledInQueue, panicked>>

\* ------------------------------------------------------------- Queue
\* instance ids are interchangeable: "b" is used only once "a" has been
FirstUse(i) == i = "a" \/ \E q \in Reqs : reqInst[q] = "a"

QueueNeverRejects == FALSE

\* if !f.isRunning { return fmt.Errorf("fetcher is not running") }
QueueRejects == ~isRunning

AlwaysHasRoom == TRUE

\* case f.queue <- req can proceed at once: the buffer is not full
HasRoom == Len(queue) < QueueCap

\* Queue(req) up to the select: RLock, the isRunning check, and the send
\* when the channel can take it at once.  Calls are numbered in the order
\* they are made.
QueueCall(r, i) ==
    /\ ~panicked
    /\ reqState[r] = "new"
    /\ \A q \in Reqs : q < r => reqState[q] # "new"
    /\ FirstUse(i)
    /\ reqInst' = [reqInst EXCEPT ![r] = i]
    /\ IF QueueRejects
         THEN /\ reqState' = [reqState EXCEPT ![r] = "notrunning"]
              /\ UNCHANGED <<queue, panicked>>
         ELSE IF closed
           THEN /\ panicked' = TRUE
                /\ UNCHANGED <<queue, reqState>>
           ELSE IF HasRoom
             THEN /\ queue' = Append(queue, r)
                  /\ reqState' = [reqState EXCEPT ![r] = "queued"]
                  /\ UNCHANGED panicked
             ELSE /\ reqState' = [reqState EXCEPT ![r] = "sending"]
                  /\ UNCHANGED <<queue, panicked>>
    /\ UNCHANGED <<closed, isRunning, cancelMap, wg, nResolvers, onResolve,
                   wpc, wreq, widx, spc, ctxDone,
                   log, nProc, started, shutdownDone, lateStop, queuedAtStop, cancelledInQueue>>

\* case <-time.After(time.Second): the send did not go through within the
\* second (a receive hands the buffer slot it frees to the longest-blocked
\* sender in the same step, see WorkerReceive), the call returns "queue is
\* full" and releases the read lock
QueueFinish(r) ==
    /\ ~panicked
    /\ reqState[r] = "sending"
    /\ reqState' = [reqState EXCEPT ![r] = "full"]
    /\ UNCHANGED <<queue, closed, isRunning, cancelMap, wg, nResolvers, onResolve,
                   wpc, wreq, widx, spc, reqInst, ctxDone,
                   log, nProc, started, shutdownDone, lateStop, queuedAtStop, cancelledInQueue, panicked>>

\* ------------------------------------------------------------ Cancel
\* Cancel(instanceID): if cancel, ok := f.cancelMap[instanceID]; ok
\* { cancel(); delete(f.cancelMap, instanceID) }, under the lock; nothing
\* happens when there is no entry
\* the requests for instance i that are in the queue
QueuedFor(i) == {r \in Reqs : reqState[r] = "queued" /\ reqInst[r] = i}

CancelledWithQueued(i) == ({cancelMap[i]} \ {0}) \cup QueuedFor(i)

CancelledByAny(i) == {cancelMap[j] : j \in InstanceIDs} \ {0}

\* the requests whose cancel func Cancel(i) calls
CancelledBy(i) == {cancelMap[i]} \ {0}

Cancel(i) ==
    /\ ~panicked
    /\ CanLock
    /\ ctxDone' = [r \in Reqs |-> IF r \in CancelledBy(i) THEN TRUE ELSE ctxDone[r]]
    /\ cancelMap' = [cancelMap EXCEPT ![i] = 0]
    /\ cancelledInQueue' = IF tracing THEN cancelledInQueue \cup QueuedFor(i)
                           ELSE cancelledInQueue
    /\ UNCHANGED <<queue, closed, isRunning, wg, nResolvers, onResolve,
                   wpc, wreq, widx, spc, reqInst, reqState,
                   log, nProc, started, shutdownDone, lateStop, queuedAtStop, panicked>>

\* ------------------------------------------------------------ worker
\* for req := range f.queue: a buffered request is received even after
\* close; the loop ends when the channel is closed and empty.  Goroutines
\* blocked in the receive are interchangeable: the lowest-numbered one
\* gets the request.  A receive from a full buffer with a sender blocked
\* on it completes that send in the same step (the Go runtime moves the
\* waiting sender's value into the slot the receive frees).
CanReceiveOnlyWhileOpen == queue # <<>> /\ ~closed

CanReceive == queue # <<>>

\* a receive leaves the rest of the buffer in the channel
ReceivedKeepsHead(q) == q

AfterReceive(q) == Tail(q)

\* the Queue() call that has been blocked in its send the longest (calls
\* are numbered in the order they are made), 0 = none
FirstSender == IF Readers = {} THEN 0
               ELSE CHOOSE r \in Readers : \A q \in Readers : r <= q

DoneForgotten(n) == n

\* defer f.wg.Done()
Done(n) == n - 1

WorkerReceive(w) ==
    /\ ~panicked
    /\ wpc[w] = "idle"
    /\ \A v \in Workers : v < w => wpc[v] # "idle"
    /\ IF CanReceive
         THEN /\ queue' = IF FirstSender = 0 THEN AfterReceive(queue)
                          ELSE Append(AfterReceive(queue), FirstSender)
              /\ wreq' = [wreq EXCEPT ![w] = Head(queue)]
              /\ wpc' = [wpc EXCEPT ![w] = "register"]
              /\ reqState' = [q \in Reqs |->
                                IF q = Head(queue) THEN "inflight"
                                ELSE IF q = FirstSender THEN "queued"
                                ELSE reqState[q]]
              /\ nProc' = [nProc EXCEPT ![Head(queue)] = @ + 1]
              /\ UNCHANGED wg
         ELSE /\ closed
              /\ wpc' = [wpc EXCEPT ![w] = "exited"]
              /\ wg' = Done(wg)
              /\ UNCHANGED <<queue, wreq, reqState, nProc>>
    /\ UNCHANGED <<closed, isRunning, cancelMap, nResolvers, onResolve,
                   widx, spc, reqInst, ctxDone,
                   log, started, shutdownDone, lateStop, queuedAtStop, cancelledInQueue, panicked>>

\* processRequest: f.cancelMap[req.InstanceID] = cancel, under the lock
Register(w) ==
    /\ ~panicked
    /\ wpc[w] = "register"
    /\ CanLock
    /\ cancelMap' = [cancelMap EXCEPT ![reqInst[wreq[w]]] = wreq[w]]
    /\ wpc' = [wpc EXCEPT ![w] = "loop"]
    /\ widx' = [widx EXCEPT ![w] = 1]
    /\ UNCHANGED <<queue, closed, isRunning, wg, nResolvers, onResolve,
                   wreq, spc, reqInst, reqState, ctxDone,
                   log, nProc, started, shutdownDone, lateStop, queuedAtStop, cancelledInQueue, panicked>>

CancelCheckedNowhere(r) == FALSE

\* the request is given up at the checkpoint at the top of the loop
CancelSeen(r) == ctxDone[r]

ResolvesUnsupported(supports) == TRUE

\* if !resolver.Supports(req.Source, req.Platform) { ...; continue }
CallsResolve(supports) == supports

\* one pass over the head of the resolver loop: the range ends, or the
\* checkpoint sees the cancellation, or Supports is consulted and, when it
\* says yes, Resolve is called
LoopStep(w) ==
    /\ ~panicked
    /\ wpc[w] = "loop"
    /\ LET r == wreq[w]
           i == widx[w]
       IN IF i > nResolvers
            THEN /\ reqState' = [reqState EXCEPT ![r] = "exhausted"]
                 /\ wpc' = [wpc EXCEPT ![w] = "cleanup"]
                 /\ UNCHANGED <<log, widx>>
            ELSE IF CancelSeen(r)
              THEN /\ reqState' = [reqState EXCEPT ![r] = "cancelled"]
                   /\ wpc' = [wpc EXCEPT ![w] = "cleanup"]
                   /\ UNCHANGED <<log, widx>>
              ELSE \E supports \in BOOLEAN :
                     IF ~CallsResolve(supports)
                       THEN /\ log' = Logged(r, <<LogEntry(i, "SupportsFalse")>>)
                            /\ widx' = [widx EXCEPT ![w] = i + 1]
                            /\ UNCHANGED <<wpc, reqState>>
                       ELSE /\ log' = Logged(r, <<LogEntry(i, IF supports THEN "SupportsTrue"
                                                                          ELSE "SupportsFalse"),
                                                  LogEntry(i, "Resolve")>>)
                            /\ wpc' = [wpc EXCEPT ![w] = "resolving"]
                            /\ UNCHANGED <<widx, reqState>>
    /\ UNCHANGED <<queue, closed, isRunning, cancelMap, wg, nResolvers, onResolve,
                   wreq, spc, reqInst, ctxDone,
                   nProc, started, shutdownDone, lateStop, queuedAtStop, cancelledInQueue, panicked>>

ContinuesOnSuccess == FALSE

\* what the loop does after a successful Resolve: TRUE = return
ReturnsOnSuccess == TRUE

GivesUpOnError(i) == MaxResolvers + 1

\* if err != nil { ...; continue }: the index of the resolver tried next
AfterError(i) == i + 1

\* resolver.Resolve returns: an error continues with the next resolver,
\* success calls f.onResolve (when set) and returns
ResolveReturn(w) ==
    /\ ~panicked
    /\ wpc[w] = "resolving"
    /\ LET r == wreq[w]
           i == widx[w]
       IN \E ok \in BOOLEAN :
            IF ~ok
              THEN /\ log' = Logged(r, <<LogEntry(i, "Err")>>)
                   /\ widx' = [widx EXCEPT ![w] = AfterError(i)]
                   /\ wpc' = [wpc EXCEPT ![w] = "loop"]
                   /\ UNCHANGED reqState
              ELSE IF onResolve
                THEN /\ log' = Logged(r, <<LogEntry(i, "Ok"), LogEntry(i, "Callback")>>)
                     /\ wpc' = [wpc EXCEPT ![w] = "callback"]
                     /\ UNCHANGED <<widx, reqState>>
                ELSE /\ log' = Logged(r, <<LogEntry(i, "Ok")>>)
                     /\ IF ReturnsOnSuccess
                          THEN /\ reqState' = [reqState EXCEPT ![r] = "resolved"]
                               /\ wpc' = [wpc EXCEPT ![w] = "cleanup"]
                               /\ UNCHANGED widx
                          ELSE /\ widx' = [widx EXCEPT ![w] = i + 1]
                               /\ wpc' = [wpc EXCEPT ![w] = "loop"]
                               /\ UNCHANGED reqState
    /\ UNCHANGED <<queue, closed, isRunning, cancelMap, wg, nResolvers, onResolve,
                   wreq, spc, reqInst, ctxDone,
                   nProc, started, shutdownDone, lateStop, queuedAtStop, cancelledInQueue, panicked>>

\* f.onResolve returns; processRequest returns
CallbackReturn(w) ==
    /\ ~panicked
    /\ wpc[w] = "callback"
    /\ IF ReturnsOnSuccess
         THEN /\ reqState' = [reqState EXCEPT ![wreq[w]] = "resolved"]
              /\ wpc' = [wpc EXCEPT ![w] = "cleanup"]
              /\ UNCHANGED widx
         ELSE /\ widx' = [widx EXCEPT ![w] = widx[w] + 1]
              /\ wpc' = [wpc EXCEPT ![w] = "loop"]
              /\ UNCHANGED reqState
    /\ UNCHANGED <<queue, closed, isRunning, cancelMap, wg, nResolvers, onResolve,
                   wreq, spc, reqInst, ctxDone,
                   log, nProc, started, shutdownDone, lateStop, queuedAtStop, cancelledInQueue, panicked>>

DeletesNothing(i) == cancelMap

\* delete(f.cancelMap, req.InstanceID)
Deleted(i) == [cancelMap EXCEPT ![i] = 0]

\* the deferred function: delete(f.cancelMap, req.InstanceID) under the
\* lock, then cancel(); the worker goes back to the range
Cleanup(w) ==
    /\ ~panicked
    /\ wpc[w] = "cleanup"
    /\ CanLock
    /\ cancelMap' = Deleted(reqInst[wreq[w]])
    /\ ctxDone' = [ctxDone EXCEPT ![wreq[w]] = TRUE]
    /\ wpc' = [wpc EXCEPT ![w] = "idle"]
    /\ wreq' = [wreq EXCEPT ![w] = 0]
    /\ widx' = [widx EXCEPT ![w] = 0]
    /\ UNCHANGED <<queue, closed, isRunning, wg, nResolvers, onResolve,
                   spc, reqInst, reqState,
                   log, nProc, started, shutdownDone, lateStop, queuedAtStop, cancelledInQueue, panicked>>

WorkerStep(w) ==
    \/ WorkerReceive(w)
    \/ Register(w)
    \/ LoopStep(w)
    \/ ResolveReturn(w)
    \/ CallbackReturn(w)
    \/ Cleanup(w)

\* ====================================================================
\* Emulator service and the queries it runs
\* ====================================================================

\* DefaultEmulators(): id and SupportedPlatforms
DefaultEmulators ==
    { [id |-> "retroarch", supportedPlatforms |-> {}],
      [id |-> "nestopia",  supportedPlatforms |-> {"nes"}],
      [id |-> "dolphin",   supportedPlatforms |-> {"wii", "gamecube"}] }

\* DefaultCores()
DefaultCores ==
    { [id |-> "retroarch_mesen",    emulatorID |-> "retroarch", coreID |-> "mesen_libretro",    supportedPlatforms |-> {"nes"}],
      [id |-> "retroarch_nestopia", emulatorID |-> "retroarch", coreID |-> "nestopia_libretro", supportedPlatforms |-> {"nes"}],
      [id |-> "retroarch_snes9x",   emulatorID |-> "retroarch", coreID |-> "snes9x_libretro",   supportedPlatforms |-> {"snes"}],
      [id |-> "retroarch_bsnes",    emulatorID |-> "retroarch", coreID |-> "bsnes_libretro",    supportedPlatforms |-> {"snes"}] }

\* DefaultEmulatorsByPlatform
DefaultEmulatorsByPlatform ==
    { [platform |-> "nes",  emulatorID |-> "retroarch", coreID |-> "mesen_libretro"],
      [platform |-> "snes", emulatorID |-> "retroarch", coreID |-> "snes9x_libretro"],
      [platform |-> "wii",  emulatorID |-> "dolphin",   coreID |-> ""] }

Platforms == {"nes", "snes", "wii", "gamecube"}

\* the instances ResolveEmulator is called for
Instances == {"i1"}

\* the (emulator id, core id) pairs SetInstanceEmulator is called with:
\* known and unknown emulators, with no core, a core of retroarch, and a
\* core id no row has
OverrideInputs ==
    {"retroarch", "nestopia", "ghost"} \X {"", "mesen_libretro", "ghost_core"}

\* the arguments SetPlatformDefault is called with
DefaultInputs ==
    { <<"nes", "retroarch", "nestopia_libretro">>,
      <<"nes", "nestopia", "">>,
      <<"nes", "retroarch", "mesen_libretro">>,
      <<"nes", "dolphin", "">>,
      <<"gamecube", "dolphin", "">> }

\* nil *models.EmulatorCore, nil *models.Emulator, nil error
NoCore == [id |-> "nil"]
NoEmu == [id |-> "nil"]
NoErr == [kind |-> "nil"]
NoCall == [instance |-> "none"]
NoPass == [installed |-> "none"]

\* the database after migrate(): empty tables
EmuInit ==
    /\ emulators = {}
    /\ emulatorCores = {}
    /\ platformEmulators = {}
    /\ instanceSettings = {}
    /\ resolved = NoCall
    /\ lastPass = NoPass

\* ------------------------------------------------------------ queries
\* db.GetEmulator(id): the row, or NoEmu for sql.ErrNoRows
GetEmulator(id) ==
    IF \E e \in emulators : e.id = id
      THEN CHOOSE e \in emulators : e.id = id
      ELSE NoEmu

\* db.GetCore(emulatorID, coreID): the rows QueryRow may return
GetCore(emulatorID, coreID) ==
    {c \in emulatorCores : c.emulatorID = emulatorID /\ c.coreID = coreID}

\* FROM emulators e JOIN platform_emulators pe ON e.id = pe.emulator_id
\* LEFT JOIN emulator_cores c ON pe.core_id = c.core_id AND c.emulator_id = e.id
\* WHERE pe.platform = ?
JoinedRows(platform) ==
    UNION { LET cs == {c \in emulatorCores : pe.coreID = c.coreID /\ c.emulatorID = e.id}
            IN IF cs = {}
                 THEN {[pe |-> pe, emu |-> e, core |-> NoCore]}
                 ELSE {[pe |-> pe, emu |-> e, core |-> c] : c \in cs}
          : <<pe, e>> \in {x \in platformEmulators \X emulators :
                              x[1].platform = platform /\ x[2].id = x[1].emulatorID} }

AnyRowIsAvailable(row) == TRUE

\* AND e.is_available = 1 AND (c.core_id IS NULL OR c.is_available = 1)
RowIsAvailable(row) ==
    /\ row.emu.isAvailable
    /\ (row.core = NoCore \/ row.core.isAvailable)

\* db.GetDefaultEmulatorForPlatform(platform, requireAvailable): the rows
\* QueryRow may return (the query has no ORDER BY); none is sql.ErrNoRows
GetDefaultEmulatorForPlatform(platform, requireAvailable) ==
    {row \in JoinedRows(platform) :
        /\ row.pe.isDefault
        /\ (requireAvailable => RowIsAvailable(row))}

\* db.GetAvailableEmulatorsForPlatform(platform): the rows that can come
\* first under ORDER BY pe.priority ASC (rows of equal priority come in an
\* order SQLite does not define)
GetAvailableEmulatorsForPlatform(platform) ==
    LET rows == {row \in JoinedRows(platform) : RowIsAvailable(row)}
    IN {row \in rows : \A o \in rows : row.pe.priority <= o.pe.priority}

\* db.GetInstanceEmulatorSettings(instanceID): the rows (at most one,
\* instance_id is the primary key)
GetInstanceEmulatorSettings(instanceID) ==
    {st \in instanceSettings : st.instanceID = instanceID}

\* ---------------------------------------------------- ResolveEmulator
Found(emu, core) == [emu |-> emu, core |-> core, err |-> NoErr]

NotAvailableUnnamed(platform) ==
    [emu |-> NoEmu, core |-> NoCore,
     err |-> [kind |-> "no available emulator for platform", platform |-> ""]]

\* fmt.Errorf("no available emulator for platform %s", instance.Platform)
NotAvailable(platform) ==
    [emu |-> NoEmu, core |-> NoCore,
     err |-> [kind |-> "no available emulator for platform", platform |-> platform]]

OverrideAlwaysUsable(st) ==
    LET emu == GetEmulator(st.emulatorID)
        cores == IF st.coreID = "" THEN {NoCore}
                 ELSE IF GetCore(st.emulatorID, st.coreID) = {} THEN {NoCore}
                 ELSE GetCore(st.emulatorID, st.coreID)
    IN IF emu = NoEmu THEN {}
       ELSE {[emu |-> emu, core |-> c, err |-> NoErr] : c \in cores}

\* getEmulatorAndCore + the availability test of step 1: the pairs the
\* override yields; empty when it is not usable
OverrideUsable(st) ==
    LET emu == GetEmulator(st.emulatorID)
        cores == IF st.coreID = "" THEN {NoCore}
                 ELSE IF GetCore(st.emulatorID, st.coreID) = {} THEN {NoCore}
                 ELSE GetCore(st.emulatorID, st.coreID)
    IN IF emu = NoEmu THEN {}
       ELSE {Found(emu, c) : c \in {c \in cores : emu.isAvailable /\ (c = NoCore \/ c.isAvailable)}}

ResolveByDefaultOnly(platform) ==
    IF GetDefaultEmulatorForPlatform(platform, TRUE) # {}
      THEN {Found(row.emu, row.core) : row \in GetDefaultEmulatorForPlatform(platform, TRUE)}
      ELSE {NotAvailable(platform)}

\* steps 2 and 3: the platform default (available only), else the first
\* available pair, else the error
ResolveByPlatform(platform) ==
    IF GetDefaultEmulatorForPlatform(platform, TRUE) # {}
      THEN {Found(row.emu, row.core) : row \in GetDefaultEmulatorForPlatform(platform, TRUE)}
      ELSE IF GetAvailableEmulatorsForPlatform(platform) # {}
        THEN {Found(row.emu, row.core) : row \in GetAvailableEmulatorsForPlatform(platform)}
        ELSE {NotAvailable(platform)}

ResolveDefaultFirst(instanceID, platform) ==
    LET usable == UNION {OverrideUsable(st) : st \in GetInstanceEmulatorSettings(instanceID)}
    IN IF GetDefaultEmulatorForPlatform(platform, TRUE) # {} \/ usable = {}
         THEN ResolveByPlatform(platform)
         ELSE usable

\* every value ResolveEmulator(instance) can return
ResolveOutcomes(instanceID, platform) ==
    LET usable == UNION {OverrideUsable(st) : st \in GetInstanceEmulatorSettings(instanceID)}
    IN IF usable # {} THEN usable ELSE ResolveByPlatform(platform)

ResolveEmulator(instanceID, platform) ==
    /\ \E res \in ResolveOutcomes(instanceID, platform) :
          resolved' = [instance |-> instanceID, platform |-> platform, result |-> res]
    /\ UNCHANGED <<emulators, emulatorCores, platformEmulators, instanceSettings, lastPass>>

\* ------------------------------------------------------- Initialize
\* isDefaultConfig(platform, emulatorID, coreID)
isDefaultConfig(platform, emulatorID, coreID) ==
    \E d \in DefaultEmulatorsByPlatform :
        d.platform = platform /\ d.emulatorID = emulatorID /\ d.coreID = coreID

\* UpsertEmulator / UpsertEmulatorCore: a new row is inserted unavailable,
\* an existing row keeps its is_available
UpsertedEmulators ==
    {[id |-> d.id, supportedPlatforms |-> d.supportedPlatforms,
      isAvailable |-> IF GetEmulator(d.id) = NoEmu THEN FALSE ELSE GetEmulator(d.id).isAvailable]
        : d \in DefaultEmulators}

UpsertedCores ==
    {[id |-> d.id, emulatorID |-> d.emulatorID, coreID |-> d.coreID,
      supportedPlatforms |-> d.supportedPlatforms,
      isAvailable |-> IF \E c \in emulatorCores : c.id = d.id
                        THEN (CHOOSE c \in emulatorCores : c.id = d.id).isAvailable
                        ELSE FALSE]
        : d \in DefaultCores}

\* regeneratePlatformMappings: ClearPlatformEmulators, then one mapping per
\* emulator and supported platform, and one per core and supported
\* platform; UpsertPlatformEmulator leaves priority at its DEFAULT 0
regeneratePlatformMappings ==
    {[id |-> <<p, e.id>>, platform |-> p, emulatorID |-> e.id, coreID |-> "",
      isDefault |-> isDefaultConfig(p, e.id, ""), priority |-> 0]
        : <<e, p>> \in {x \in DefaultEmulators \X Platforms : x[2] \in x[1].supportedPlatforms}}
    \cup
    {[id |-> <<p, c.emulatorID, c.coreID>>, platform |-> p, emulatorID |-> c.emulatorID,
      coreID |-> c.coreID,
      isDefault |-> isDefaultConfig(p, c.emulatorID, c.coreID), priority |-> 0]
        : <<c, p>> \in {x \in DefaultCores \X Platforms : x[2] \in x[1].supportedPlatforms}}

Initialize ==
    /\ emulators' = UpsertedEmulators
    /\ emulatorCores' = UpsertedCores
    /\ platformEmulators' = regeneratePlatformMappings
    /\ resolved' = NoCall
    /\ lastPass' = NoPass
    /\ UNCHANGED instanceSettings

\* ------------------------------------------------ DiscoverAvailable
\* DiscoverAvailable with the probes' answers as inputs: installedEmus are
\* the emulators checkFlatpakInstalled finds, coreFiles the core ids whose
\* .so file exists.  The cores are probed only when retroarch was found.
\* the cores discoverRetroArchCores visits: those of retroarch, and only
\* when the pass has found retroarch itself installed
ProbedCores(installedEmus) ==
    IF \E e \in emulators : e.id = "retroarch" /\ e.id \in installedEmus
      THEN {c \in emulatorCores : c.emulatorID = "retroarch"}
      ELSE {}

\* if available != emu.IsAvailable { UpdateEmulatorAvailability; log }
UpdatedEmulators(installedEmus) ==
    {e \in emulators : e.isAvailable # (e.id \in installedEmus)}

\* if available != core.IsAvailable { UpdateEmulatorCoreAvailability; log }
UpdatedCores(installedEmus, coreFiles) ==
    {c \in ProbedCores(installedEmus) : c.isAvailable # (c.coreID \in coreFiles)}

DiscoverAvailable(installedEmus, coreFiles) ==
    /\ emulators' = {IF e \in UpdatedEmulators(installedEmus)
                       THEN [e EXCEPT !.isAvailable = (e.id \in installedEmus)]
                       ELSE e : e \in emulators}
    /\ emulatorCores' = {IF c \in UpdatedCores(installedEmus, coreFiles)
                           THEN [c EXCEPT !.isAvailable = (c.coreID \in coreFiles)]
                           ELSE c : c \in emulatorCores}
    /\ resolved' = NoCall
    /\ lastPass' =
         IF tracing
           THEN [installed |-> installedEmus, coreFiles |-> coreFiles,
                 updated |-> {e.id : e \in UpdatedEmulators(installedEmus)}
                             \cup {c.id : c \in UpdatedCores(installedEmus, coreFiles)},
                 mismatched |-> {e.id : e \in UpdatedEmulators(installedEmus)} \cup
                                {c.id : c \in {x \in emulatorCores :
                                                  x.isAvailable # (x.coreID \in coreFiles)}}]
           ELSE NoPass
    /\ UNCHANGED <<platformEmulators, instanceSettings>>

\* --------------------------------------------------------- setters
\* db.SetPlatformDefaultEmulator: clear the platform's default, then mark
\* the rows of (platform, emulatorID, coreID)
KeepsOldDefault(platform) == platformEmulators

\* UPDATE platform_emulators SET is_default = 0 WHERE platform = ?
ClearDefault(platform) ==
    {IF pe.platform = platform THEN [pe EXCEPT !.isDefault = FALSE] ELSE pe
        : pe \in platformEmulators}

SetPlatformDefault(platform, emulatorID, coreID) ==
    /\ platformEmulators' =
         {IF pe.platform = platform /\ pe.emulatorID = emulatorID /\ pe.coreID = coreID
            THEN [pe EXCEPT !.isDefault = TRUE]
            ELSE pe : pe \in ClearDefault(platform)}
    /\ resolved' = NoCall
    /\ UNCHANGED <<emulators, emulatorCores, instanceSettings, lastPass>>

\* db.SetInstanceEmulatorSettings: insert, or update the instance's row
SetInstanceEmulator(instanceID, emulatorID, coreID, customArgs) ==
    /\ instanceSettings' =
         {st \in instanceSettings : st.instanceID # instanceID}
         \cup {[instanceID |-> instanceID, emulatorID |-> emulatorID, coreID |-> coreID,
                customArgs |-> customArgs]}
    /\ resolved' = NoCall
    /\ UNCHANGED <<emulators, emulatorCores, platformEmulators, lastPass>>

\* nothing of the fetcher or of the launcher is touched by the emulator service
FetcherIdle == UNCHANGED <<fvars, lvars>>

EmuNext ==
    \/ Initialize /\ FetcherIdle
    \/ \E es \in SUBSET {d.id : d \in DefaultEmulators} :
         \E cs \in (IF "retroarch" \in es THEN SUBSET {d.coreID : d \in DefaultCores} ELSE {{}}) :
            DiscoverAvailable(es, cs) /\ FetcherIdle
    \/ \E d \in DefaultInputs : SetPlatformDefault(d[1], d[2], d[3]) /\ FetcherIdle
    \/ \E i \in Instances, o \in OverrideInputs : SetInstanceEmulator(i, o[1], o[2], <<>>) /\ FetcherIdle
    \/ \E i \in Instances, p \in Platforms : ResolveEmulator(i, p) /\ FetcherIdle

\* ====================================================================
\* Command builder (Service.BuildCommand)
\* ====================================================================
\* A string is a sequence of runes.  The runes the code treats specially
\* are the space, the two quote characters and the backslash; any other
\* element of a sequence stands for one or more ordinary runes.
SP == " "
DQ == "\""
SQ == "'"
BS == "\\"

\* longest ROM path BuildCommand is called with
MaxPathLen == 3

\* the runes ROM paths are made of
PathRunes == {"a", SP, DQ, SQ, BS}

RomPaths == UNION {[1..n -> PathRunes] : n \in 1..MaxPathLen}

\* strings.Contains(s, c) for a single rune c
Contains(s, c) == \E k \in 1..Len(s) : s[k] = c

RECURSIVE Flatten(_)
\* concatenation of a sequence of strings
Flatten(ss) == IF ss = <<>> THEN <<>> ELSE Head(ss) \o Flatten(Tail(ss))

\* strconv.Quote on one rune: the double quote and the backslash are
\* escaped with a backslash, printable runes are copied
GoQuoteRune(c) == IF c = DQ THEN <<BS, DQ>> ELSE IF c = BS THEN <<BS, BS>> ELSE <<c>>

\* fmt.Sprintf("%q", path)
GoQuote(path) == <<DQ>> \o Flatten([k \in 1..Len(path) |-> GoQuoteRune(path[k])]) \o <<DQ>>

\* quotePathIfNeeded(path)
quotePathIfNeeded(path) == IF Contains(path, SP) THEN GoQuote(path) ELSE path

RECURSIVE ParseFrom(_, _, _, _, _)
\* the loop of parseCommandWithQuotes from rune k on; quoteChar = "" stands
\* for inQuote = false, quoteChar = 0
ParseFrom(cmd, k, args, currentArg, quoteChar) ==
    IF k > Len(cmd)
      THEN IF currentArg # <<>> THEN Append(args, currentArg) ELSE args
      ELSE LET r == cmd[k] IN
        IF r = DQ \/ r = SQ
          THEN IF quoteChar = ""
                 THEN ParseFrom(cmd, k + 1, args, currentArg, r)
                 ELSE IF r = quoteChar
                   THEN ParseFrom(cmd, k + 1, args, currentArg, "")
                   ELSE ParseFrom(cmd, k + 1, args, Append(currentArg, r), quoteChar)
          ELSE IF r = SP /\ quoteChar = ""
            THEN IF currentArg # <<>>
                   THEN ParseFrom(cmd, k + 1, Append(args, currentArg), <<>>, "")
                   ELSE ParseFrom(cmd, k + 1, args, currentArg, "")
            ELSE ParseFrom(cmd, k + 1, args, Append(currentArg, r), quoteChar)

\* parseCommandWithQuotes(cmd)
parseCommandWithQuotes(cmd) == ParseFrom(cmd, 1, <<>>, <<>>, "")

\* strings.ReplaceAll for each placeholder in `with`, on a template given
\* as a sequence of runes and placeholders.  (No value substituted in the
\* model contains a brace, so the order of the ReplaceAll calls does not
\* matter.)
Substitute(template, with) ==
    Flatten([k \in 1..Len(template) |->
                IF template[k] \in DOMAIN with THEN with[template[k]] ELSE <<template[k]>>])

\* CommandTemplate of retroarch and of the standalone flatpak emulators
\* (DefaultEmulators), and a template for a native emulator
RetroArchTemplate ==
    <<"flatpak", SP, "run", SP, "{flatpak_id}", SP, "-L", SP, "{core_lib_path}", SP, "{args}", SP, "{rom}">>
StandaloneTemplate ==
    <<"flatpak", SP, "run", SP, "{flatpak_id}", SP, "{args}", SP, "{rom}">>
NativeTemplate ==
    <<"{executable}", SP, "{args}", SP, "{rom}">>

\* the emulators BuildCommand is called with
CmdEmulators ==
    { [id |-> "retroarch", type |-> "flatpak", flatpakID |-> <<"org.libretro.RetroArch">>,
       executablePath |-> <<>>, commandTemplate |-> RetroArchTemplate,
       defaultArgs |-> <<"--fullscreen">>, isAvailable |-> avail] : avail \in BOOLEAN }
    \cup
    { [id |-> "dolphin", type |-> "flatpak", flatpakID |-> <<"org.DolphinEmu.dolphin-emu">>,
       executablePath |-> <<>>, commandTemplate |-> StandaloneTemplate,
       defaultArgs |-> <<"-b", SP, "-e">>, isAvailable |-> TRUE],
      [id |-> "native", type |-> "native", flatpakID |-> <<>>,
       executablePath |-> <<"/usr/bin/emu">>, commandTemplate |-> NativeTemplate,
       defaultArgs |-> <<>>, isAvailable |-> TRUE],
      NoEmu }

\* the cores BuildCommand is called with
CmdCores == {NoCore, [emulatorID |-> "retroarch", coreID |-> "mesen_libretro"]}

\* values of customArgs
CmdCustomArgs == {<<>>, <<"--verbose">>}

\* values of $HOME
CmdHomes == {<<"/home/u">>, <<"/home/my", SP, "u">>}

CmdInputs ==
    [emulator : CmdEmulators, core : CmdCores, romPath : RomPaths,
     customArgs : CmdCustomArgs, home : CmdHomes]

NoInput == [romPath |-> <<>>]
NoBuild == [argv |-> "none"]

\* no BuildCommand call is made
CmdIdle == cmdIn = NoInput /\ built = NoBuild

\* filepath.Join(os.Getenv("HOME"), ".var", ..., "cores", core.CoreID+".so")
CoreLibPath(home, core) == home \o <<"/.var/app/org.libretro.RetroArch/config/retroarch/cores/", core.coreID, ".so">>

\* emulator.DefaultArgs combined with customArgs
CombinedArgs(defaultArgs, customArgs) ==
    IF customArgs # <<>>
      THEN IF defaultArgs # <<>> THEN defaultArgs \o <<SP>> \o customArgs ELSE customArgs
      ELSE defaultArgs

buildFlatpakCommand(emulator, coreLibPath, romPath, args) ==
    parseCommandWithQuotes(
        Substitute(emulator.commandTemplate,
                   [x \in {"{flatpak_id}", "{core_lib_path}", "{args}", "{rom}"} |->
                       CASE x = "{flatpak_id}" -> emulator.flatpakID
                         [] x = "{core_lib_path}" -> quotePathIfNeeded(coreLibPath)
                         [] x = "{args}" -> args
                         [] x = "{rom}" -> quotePathIfNeeded(romPath)]))

buildNativeCommand(emulator, romPath, args) ==
    parseCommandWithQuotes(
        Substitute(emulator.commandTemplate,
                   [x \in {"{executable}", "{args}", "{rom}"} |->
                       CASE x = "{executable}" -> emulator.executablePath
                         [] x = "{args}" -> args
                         [] x = "{rom}" -> quotePathIfNeeded(romPath)]))

\* what BuildCommand(emulator, core, romPath, customArgs) returns
BuildResult(in) ==
    IF in.emulator = NoEmu
      THEN [argv |-> <<>>, err |-> [kind |-> "emulator is nil"]]
      ELSE IF ~in.emulator.isAvailable
        THEN [argv |-> <<>>, err |-> [kind |-> "not available", emulator |-> in.emulator.id]]
        ELSE LET coreLibPath == IF in.core # NoCore /\ in.emulator.id = "retroarch"
                                  THEN CoreLibPath(in.home, in.core) ELSE <<>>
                 args == CombinedArgs(in.emulator.defaultArgs, in.customArgs)
             IN [argv |-> IF in.emulator.type = "flatpak"
                            THEN buildFlatpakCommand(in.emulator, coreLibPath, in.romPath, args)
                            ELSE buildNativeCommand(in.emulator, in.romPath, args),
                 err |-> NoErr]

BuildCommand ==
    /\ cmdIn # NoInput
    /\ built = NoBuild
    /\ built' = BuildResult(cmdIn)
    /\ UNCHANGED cmdIn

\* ====================================================================
\* Emulated source: the emulator-availability cache (emulated.Source)
\* ====================================================================
\* The platforms of the source's configuration (Source.platforms)
SourcePlatforms == {"nes", "wii"}

NotCached == "none"
NoAccess == [platform |-> "none"]
NoLookup == [platform |-> "none", result |-> "none"]

\* Source{} as ServiceStartup builds it: the cache map is nil
SourceInit ==
    /\ emulatorAvailabilityCache = [p \in SourcePlatforms |-> NotCached]
    /\ populating = {}
    /\ mapWrite = NoAccess
    /\ mapRead = NoAccess
    /\ hasEmulator = NoLookup

YesNo(b) == IF b THEN "yes" ELSE "no"

\* the value populateEmulatorAvailabilityCache computes for a platform
ComputedAvailability(platform) ==
    YesNo(\/ GetDefaultEmulatorForPlatform(platform, TRUE) # {}
          \/ GetAvailableEmulatorsForPlatform(platform) # {})

\* Refresh / SetEmulatorService: populateEmulatorAvailabilityCache is
\* entered and starts to range over s.platforms
Refresh ==
    /\ populating = {} /\ mapWrite = NoAccess
    /\ populating' = SourcePlatforms
    /\ UNCHANGED <<emulatorAvailabilityCache, mapWrite, mapRead, hasEmulator>>

\* one iteration, up to the start of s.emulatorAvailabilityCache[platform] = v.
\* No lock is taken; a lookup that is in progress now overlaps the write.
PopulateStore(platform) ==
    /\ platform \in populating /\ mapWrite = NoAccess
    /\ populating' = populating \ {platform}
    /\ mapWrite' = [platform |-> platform, value |-> ComputedAvailability(platform)]
    /\ mapRead' = IF mapRead = NoAccess THEN mapRead ELSE [mapRead EXCEPT !.raced = TRUE]
    /\ UNCHANGED <<emulatorAvailabilityCache, hasEmulator>>

\* the map assignment completes
PopulateStored ==
    /\ mapWrite # NoAccess
    /\ emulatorAvailabilityCache' =
         [emulatorAvailabilityCache EXCEPT ![mapWrite.platform] = mapWrite.value]
    /\ mapWrite' = NoAccess
    /\ UNCHANGED <<populating, mapRead, hasEmulator>>

\* createInstance -> getEmulatorAvailabilityForPlatform: the map lookup
\* starts.  No lock is taken; it may start while an assignment is in progress.
LookupBegin(platform) ==
    /\ mapRead = NoAccess
    /\ mapRead' = [platform |-> platform, raced |-> mapWrite # NoAccess]
    /\ UNCHANGED <<emulatorAvailabilityCache, populating, mapWrite, hasEmulator>>

\* what getEmulatorAvailabilityForPlatform returns: the cached value, or
\* the on-demand query's answer when the platform is not cached.  A lookup
\* that overlapped an assignment is a data race on the map: it may return
\* either value, or the runtime may abort the process ("concurrent map
\* read and map write").
LookupResults ==
    IF mapRead.raced
      THEN {"yes", "no", "fatal"}
      ELSE IF emulatorAvailabilityCache[mapRead.platform] # NotCached
             THEN {emulatorAvailabilityCache[mapRead.platform]}
             ELSE {YesNo(GetAvailableEmulatorsForPlatform(mapRead.platform) # {})}

LookupEnd ==
    /\ mapRead # NoAccess
    /\ \E res \in LookupResults :
           hasEmulator' = [platform |-> mapRead.platform, result |-> res]
    /\ mapRead' = NoAccess
    /\ UNCHANGED <<emulatorAvailabilityCache, populating, mapWrite>>

\* the answers of the host probes between two refreshes: nothing installed,
\* only dolphin, retroarch with the mesen core, retroarch without cores
SourceProbes ==
    { <<{}, {}>>, <<{"dolphin"}, {}>>, <<{"retroarch"}, {"mesen_libretro"}>>,
      <<{"retroarch", "nestopia"}, {}>> }

SourceIdle == UNCHANGED <<fvars, evars, cmdIn, built, mvars, gvars, hvars, svars>>

\* the emulator service's seeding and discovery, the refresh task and the
\* task that lists the instances
SourceNext ==
    \/ Initialize /\ FetcherIdle
    \/ \E pr \in SourceProbes : DiscoverAvailable(pr[1], pr[2]) /\ FetcherIdle
    \/ Refresh /\ SourceIdle
    \/ \E p \in SourcePlatforms : PopulateStore(p) /\ SourceIdle
    \/ PopulateStored /\ SourceIdle
    \/ \E p \in SourcePlatforms : LookupBegin(p) /\ SourceIdle
    \/ LookupEnd /\ SourceIdle

\* ====================================================================
\* Configuration manager (package config)
\* ====================================================================
\* Config has one setting, Filters.Steam.ExcludeTools; a configuration is
\* modelled by that boolean.
MaxManagers == 2
NumCallers == 2
MaxWaiting == 1

CfgPaths == {"P", "Q"}
Callers == 1..NumCallers

NoFile == <<>>
NoFilters == <<>>
NoCfgCall == [op |-> "none"]

\* toml.NewEncoder(file).Encode(m.data): the file's lines
Encode(excludeTools) ==
    <<"[filters]", "[filters.steam]",
      IF excludeTools THEN "excludeTools = true" ELSE "excludeTools = false">>

\* toml.DecodeFile(m.path, m.data): a key of the file overwrites the
\* field, a field the file does not name keeps its value
Decode(text, data) ==
    IF \E i \in 1..Len(text) : text[i] = "excludeTools = true" THEN TRUE
    ELSE IF \E i \in 1..Len(text) : text[i] = "excludeTools = false" THEN FALSE
    ELSE data

\* a process that has just started, on a disk with no config file:
\* var defaultConfig = Config{... ExcludeTools: true}
ConfigInit ==
    /\ files = [p \in CfgPaths |-> NoFile]
    /\ defaultConfig = TRUE
    /\ managers = <<>>
    /\ cfgCall = [c \in Callers |-> NoCfgCall]
    /\ crashed = FALSE
    /\ lastSet = [p \in CfgPaths |-> NoFilters]
    /\ cfgLast = NoCfgCall

\* Manager.Get: *m.data, and data is &defaultConfig in every Manager
Get(m) == defaultConfig

\* NewManager(configPath) up to the result of Load.  manager.data is
\* &defaultConfig.  With a file, Load decodes it into *m.data and the
\* Manager is returned; without one, Save is entered and takes the write
\* lock of the new Manager's mutex.
NewManager(c, path) ==
    /\ ~crashed /\ cfgCall[c] = NoCfgCall /\ Len(managers) < MaxManagers
    /\ IF files[path] # NoFile
         THEN /\ defaultConfig' = Decode(files[path], defaultConfig)
              /\ managers' = Append(managers, [path |-> path, locked |-> FALSE, waiting |-> 0])
              /\ cfgLast' = [op |-> "NewManager", path |-> path, fresh |-> FALSE,
                              returned |-> TRUE, holds |-> defaultConfig',
                              expect |-> lastSet[path]]
              /\ UNCHANGED cfgCall
         ELSE /\ cfgCall' = [cfgCall EXCEPT ![c] = [op |-> "NewManager", path |-> path]]
              /\ UNCHANGED <<defaultConfig, managers, cfgLast>>
    /\ UNCHANGED <<files, crashed, lastSet>>

\* Save of NewManager: os.Create, Encode(m.data), and the deferred
\* m.mu.RUnlock() on the mutex Save write-locked.  Nobody else has the new
\* Manager, so no reader is waiting and the runtime aborts the process
\* ("sync: RUnlock of unlocked RWMutex").
NewManagerSave(c) ==
    /\ ~crashed /\ cfgCall[c].op = "NewManager"
    /\ files' = [files EXCEPT ![cfgCall[c].path] = Encode(defaultConfig)]
    /\ crashed' = TRUE
    /\ cfgLast' = [op |-> "NewManager", path |-> cfgCall[c].path, fresh |-> TRUE,
                    returned |-> FALSE, holds |-> Get(0), expect |-> NoFilters]
    /\ cfgCall' = [cfgCall EXCEPT ![c] = NoCfgCall]
    /\ UNCHANGED <<defaultConfig, managers, lastSet>>

\* SetFilters(filters): Lock; m.data.Filters = filters; Unlock
SetFilters(c, m, filters) ==
    /\ ~crashed /\ cfgCall[c] = NoCfgCall
    /\ m \in 1..Len(managers) /\ ~managers[m].locked
    /\ defaultConfig' = filters
    /\ cfgCall' = [cfgCall EXCEPT ![c] = [op |-> "SetFilters", mgr |-> m,
                                           filters |-> filters, at |-> "save"]]
    /\ lastSet' = [lastSet EXCEPT ![managers[m].path] = NoFilters]
    /\ UNCHANGED <<files, managers, crashed, cfgLast>>

\* Save: m.mu.Lock()
SaveLock(c) ==
    /\ ~crashed /\ cfgCall[c].op = "SetFilters" /\ cfgCall[c].at = "save"
    /\ ~managers[cfgCall[c].mgr].locked
    /\ managers' = [managers EXCEPT ![cfgCall[c].mgr].locked = TRUE]
    /\ cfgCall' = [cfgCall EXCEPT ![c].at = "locked"]
    /\ UNCHANGED <<files, defaultConfig, crashed, lastSet, cfgLast>>

\* a Get (or Load) of another goroutine reaches m.mu.RLock() while Save
\* holds the write lock, and waits
GetWaits(m) ==
    /\ ~crashed
    /\ m \in 1..Len(managers) /\ managers[m].locked
    /\ managers[m].waiting < MaxWaiting
    /\ managers' = [managers EXCEPT ![m].waiting = @ + 1]
    /\ UNCHANGED <<files, defaultConfig, cfgCall, crashed, lastSet, cfgLast>>

\* RWMutex.RUnlock while the mutex is write-locked: with no reader
\* waiting the runtime aborts the process
RUnlockAborts(m) == managers[m].waiting = 0

OtherCallOn(c, path) ==
    \E o \in Callers \ {c} :
        cfgCall[o].op = "SetFilters" /\ managers[cfgCall[o].mgr].path = path

\* Save: os.Create, Encode(m.data), then the deferred m.mu.RUnlock().  It
\* aborts the process, or (a reader is waiting) it takes one reader off the
\* count and returns with the write lock still held; SetFilters returns nil.
SaveFinish(c) ==
    LET m == cfgCall[c].mgr
        path == managers[m].path
    IN /\ ~crashed /\ cfgCall[c].op = "SetFilters" /\ cfgCall[c].at = "locked"
       /\ files' = [files EXCEPT ![path] = Encode(defaultConfig)]
       /\ cfgCall' = [cfgCall EXCEPT ![c] = NoCfgCall]
       /\ IF RUnlockAborts(m)
            THEN /\ crashed' = TRUE
                 /\ UNCHANGED <<managers, lastSet>>
            ELSE /\ managers' = [managers EXCEPT ![m].waiting = @ - 1]
                 /\ lastSet' = [lastSet EXCEPT ![path] =
                                   IF OtherCallOn(c, path) THEN NoFilters
                                   ELSE <<cfgCall[c].filters>>]
                 /\ UNCHANGED crashed
       /\ UNCHANGED <<defaultConfig, cfgLast>>

\* the process ends (aborted, or exited with no call in progress) and is
\* started again: the files stay, the package variable is initialised anew
Restart ==
    /\ crashed \/ \A c \in Callers : cfgCall[c] = NoCfgCall
    /\ defaultConfig' = TRUE
    /\ managers' = <<>>
    /\ cfgCall' = [c \in Callers |-> NoCfgCall]
    /\ crashed' = FALSE
    /\ cfgLast' = NoCfgCall
    /\ UNCHANGED <<files, lastSet>>

ConfigIdle == UNCHANGED <<fvars, evars, cmdIn, built, mvars, avars, hvars, svars>>

ConfigNext ==
    \/ \E c \in Callers, path \in CfgPaths : NewManager(c, path) /\ ConfigIdle
    \/ \E c \in Callers : NewManagerSave(c) /\ ConfigIdle
    \/ \E c \in Callers, m \in 1..MaxManagers, f \in BOOLEAN : SetFilters(c, m, f) /\ ConfigIdle
    \/ \E c \in Callers : SaveLock(c) /\ ConfigIdle
    \/ \E m \in 1..MaxManagers : GetWaits(m) /\ ConfigIdle
    \/ \E c \in Callers : SaveFinish(c) /\ ConfigIdle
    \/ Restart /\ ConfigIdle

\* ====================================================================
\* Launch (GamesService.Launch and emulated Source.Launch)
\* ====================================================================
NoLaunch == [instance |-> "none"]

\* the sources in the registry (ServiceStartup registers both)
RegisteredSources == {"emulated", "steam"}

\* the instances Launch is called for: known or not, of a registered
\* source or not
LaunchInputs ==
    [instance : Instances, known : BOOLEAN, platform : {"nes", "wii", "gamecube"},
     source : {"emulated", "ghost"}]
    \cup [instance : Instances, known : {TRUE}, platform : {"pc"}, source : {"steam"}]

LaunchInit ==
    /\ launchOf = NoLaunch
    /\ launchPc = "idle"
    /\ launchStatuses = <<>>
    /\ procMonitor = "none"

\* emitLaunchStatus(instance.ID, instance.GameID, status, errMsg); NoErr
\* stands for the empty errMsg
Emitted(status, errMsg) == Append(launchStatuses, [status |-> status, error |-> errMsg])

\* Launch(instanceID) up to `go func()`: the instance is looked up,
\* "launching" is emitted, the source is looked up; an unknown source is
\* reported as failed
Launch(in) ==
    /\ launchPc = "idle"
    /\ launchOf' = in
    /\ IF ~in.known
         THEN /\ launchPc' = "done"
              /\ UNCHANGED launchStatuses
         ELSE IF in.source \notin RegisteredSources
           THEN /\ launchStatuses' =
                     Emitted("launching", NoErr) \o
                        <<[status |-> "failed", error |-> [kind |-> "unknown source"]]>>
                /\ launchPc' = "done"
           ELSE /\ launchStatuses' = Emitted("launching", NoErr)
                /\ launchPc' = "spawned"
    /\ UNCHANGED procMonitor

\* BuildCommand's own checks: emulator == nil, !emulator.IsAvailable
BuildFails(emu) == emu = NoEmu \/ ~emu.isAvailable

\* the error emulated Source.Launch returns: res is what ResolveEmulator
\* returned, spawnedOk tells whether execCmd.Start succeeded, alive whether
\* Process.Signal(0) succeeded after the 500 ms wait
LaunchError(res, spawnedOk, alive) ==
    IF res.err # NoErr THEN [kind |-> "no emulator available for", cause |-> res.err]
    ELSE IF res.emu = NoEmu THEN [kind |-> "no emulator configured for platform"]
    ELSE IF ~res.emu.isAvailable THEN [kind |-> "is not installed", emulator |-> res.emu.id]
    ELSE IF BuildFails(res.emu) THEN [kind |-> "failed to build emulator command"]
    ELSE IF ~spawnedOk THEN [kind |-> "failed to start emulator"]
    ELSE IF ~alive THEN [kind |-> "emulator failed to start", stderr |-> "stderr"]
    ELSE NoErr

\* the error steam Source.Launch returns: hasSourceID tells whether
\* instance.SourceID is non-empty, spawnedOk whether cmd.Start of the URL
\* opener succeeded
SteamLaunchError(hasSourceID, spawnedOk) ==
    IF ~hasSourceID THEN [kind |-> "no source ID for Steam instance"]
    ELSE IF ~spawnedOk THEN [kind |-> "failed to launch Steam URL"]
    ELSE NoErr

\* the Emulator struct of a row of table emulators (DefaultEmulators())
EmulatorStruct(emu) ==
    [id |-> emu.id, type |-> "flatpak",
     flatpakID |-> CASE emu.id = "retroarch" -> <<"org.libretro.RetroArch">>
                     [] emu.id = "nestopia" -> <<"ca._0ldsk00l.Nestopia">>
                     [] OTHER -> <<"org.DolphinEmu.dolphin-emu">>,
     executablePath |-> <<>>,
     commandTemplate |-> IF emu.id = "retroarch" THEN RetroArchTemplate ELSE StandaloneTemplate,
     defaultArgs |-> IF emu.id = "dolphin" THEN <<"-b", SP, "-e">> ELSE <<"--fullscreen">>,
     isAvailable |-> emu.isAvailable]

\* instance.Path and $HOME of the launches
LaunchRomPath == <<"/roms/game.rom">>
LaunchHome == <<"/home/u">>

\* settings, _ := GetInstanceEmulatorSettings(instance.ID); customArgs is
\* settings.CustomArgs when there is a row, "" otherwise
CustomArgsPassed(res, settings) ==
    IF settings = {} THEN <<>>
    ELSE (CHOOSE st \in settings : TRUE).customArgs

\* source.Launch gets as far as its BuildCommand call
ReachesBuild(res) == res.err = NoErr /\ res.emu # NoEmu /\ res.emu.isAvailable

\* the arguments of s.emuService.BuildCommand(emu, core, instance.Path, customArgs)
LaunchCommandInput(res, instanceID) ==
    [emulator |-> EmulatorStruct(res.emu),
     core |-> IF res.core = NoCore THEN NoCore
              ELSE [emulatorID |-> res.core.emulatorID, coreID |-> res.core.coreID],
     romPath |-> LaunchRomPath,
     customArgs |-> CustomArgsPassed(res, GetInstanceEmulatorSettings(instanceID)),
     home |-> LaunchHome]

FailedThenRunning(err) ==
    IF err # NoErr THEN <<[status |-> "failed", error |-> err],
                          [status |-> "running", error |-> NoErr]>>
    ELSE <<[status |-> "running", error |-> NoErr]>>

\* what the goroutine emits after source.Launch has returned err
StatusesAfterLaunch(err) ==
    IF err # NoErr THEN <<[status |-> "failed", error |-> err]>>
    ELSE <<[status |-> "running", error |-> NoErr]>>

\* the goroutine of Launch: source.Launch; on an error "failed" is emitted
\* with the error text and the goroutine returns; otherwise "running" is
\* emitted (emulated source) and source.MonitorProcess starts its goroutine
SourceLaunch ==
    /\ launchPc = "spawned"
    /\ launchOf.source = "emulated"
    /\ \E res \in ResolveOutcomes(launchOf.instance, launchOf.platform),
          spawnedOk \in BOOLEAN, alive \in BOOLEAN :
          LET err == LaunchError(res, spawnedOk, alive) IN
          /\ launchStatuses' = launchStatuses \o StatusesAfterLaunch(err)
          /\ procMonitor' = IF err # NoErr THEN procMonitor ELSE "started"
          /\ IF ReachesBuild(res)
               THEN /\ cmdIn' = LaunchCommandInput(res, launchOf.instance)
                    /\ built' = BuildResult(cmdIn')
               ELSE UNCHANGED <<cmdIn, built>>
    /\ launchPc' = "done"
    /\ UNCHANGED launchOf

\* the goroutine of Launch for a Steam instance: an error of source.Launch
\* is emitted as "failed"; otherwise nothing is emitted (instance.Source is
\* not "emulated"), steam Source.MonitorProcess returns at once, having
\* started nothing, and the goroutine ends
SteamLaunch ==
    /\ launchPc = "spawned"
    /\ launchOf.source = "steam"
    /\ \E hasSourceID \in BOOLEAN, spawnedOk \in BOOLEAN :
          LET err == SteamLaunchError(hasSourceID, spawnedOk) IN
          /\ launchStatuses' = IF err # NoErr THEN launchStatuses \o StatusesAfterLaunch(err)
                               ELSE launchStatuses
          /\ procMonitor' = IF err # NoErr THEN procMonitor ELSE "returned"
    /\ launchPc' = "done"
    /\ UNCHANGED launchOf

\* MonitorProcess's goroutine: s.emitRunning(instance), then cmd.Wait()
MonitorRunning ==
    /\ procMonitor = "started"
    /\ launchStatuses' = Emitted("running", NoErr)
    /\ procMonitor' = "waiting"
    /\ UNCHANGED <<launchOf, launchPc>>

\* cmd.Wait() returns: s.emitStopped(instance)
MonitorStopped ==
    /\ procMonitor = "waiting"
    /\ launchStatuses' = Emitted("stopped", NoErr)
    /\ procMonitor' = "ended"
    /\ UNCHANGED <<launchOf, launchPc>>

LauncherIdle == UNCHANGED <<fvars, evars, cmdIn, built, mvars, avars, gvars, svars>>

\* the goroutine of an emulated launch
SourceLaunchStep == SourceLaunch /\ UNCHANGED <<fvars, evars, mvars, avars, gvars, svars>>

\* the emulator service is seeded, probes the host and stores overrides;
\* then an instance is launched
LaunchNext ==
    \/ Initialize /\ launchPc = "idle" /\ FetcherIdle
    \/ \E pr \in SourceProbes : DiscoverAvailable(pr[1], pr[2]) /\ launchPc = "idle" /\ FetcherIdle
    \/ \E i \in Instances, o \in OverrideInputs, a \in CmdCustomArgs :
          SetInstanceEmulator(i, o[1], o[2], a) /\ launchPc = "idle" /\ FetcherIdle
    \/ \E in \in LaunchInputs : Launch(in) /\ LauncherIdle
    \/ SourceLaunchStep
    \/ SteamLaunch /\ LauncherIdle
    \/ MonitorRunning /\ LauncherIdle
    \/ MonitorStopped /\ LauncherIdle

\* ====================================================================
\* Metadata status (GamesService around the fetcher)
\* ====================================================================
\* no fetch has been asked for: no instance is "fetching", no goroutine runs
StatusInit ==
    /\ metadataStatus = [i \in InstanceIDs |-> "idle"]
    /\ artJobs = [i \in InstanceIDs |-> 0]

\* what the GamesService steps leave alone
StatusOthers == UNCHANGED <<tracing, evars, cmdIn, built, mvars, avars, gvars, hvars>>

\* queueMetadataFetch(instance): with cached metadata that applies, the
\* status is stored as completed and no request is made; otherwise the
\* status is stored as fetching and the request goes to Fetcher.Queue, whose
\* error is only logged
queueMetadataFetch(r, i, cached) ==
    /\ IF cached
         THEN /\ ~panicked
              /\ metadataStatus' = [metadataStatus EXCEPT ![i] = "completed"]
              /\ UNCHANGED fvars
         ELSE /\ metadataStatus' = [metadataStatus EXCEPT ![i] = "fetching"]
              /\ QueueCall(r, i)
              /\ UNCHANGED tracing
    /\ UNCHANGED artJobs

\* onMetadataResolved returns: it has stored the game and started the
\* goroutine that downloads the art and then stores the status; when the
\* game cannot be read or written (dbOk = FALSE) it has returned early
onMetadataResolved(w, dbOk) ==
    /\ CallbackReturn(w)
    /\ artJobs' = IF dbOk THEN [artJobs EXCEPT ![reqInst[wreq[w]]] = @ + 1] ELSE artJobs
    /\ UNCHANGED metadataStatus

\* the goroutine of onMetadataResolved ends: after downloadAndCacheArt
\* (which may have stored "error") it stores the status as completed
ArtDone(i) ==
    /\ artJobs[i] > 0
    /\ artJobs' = [artJobs EXCEPT ![i] = @ - 1]
    /\ metadataStatus' = [metadataStatus EXCEPT ![i] = "completed"]
    /\ UNCHANGED fvars

\* the fetcher as GamesService drives it, with the persisted status
StatusNext ==
    \/ RegisterResolver /\ UNCHANGED svars /\ StatusOthers
    \/ SetOnResolveCallback /\ UNCHANGED svars /\ StatusOthers
    \/ onResolve /\ nResolvers >= 1 /\ ~closed /\ Start /\ UNCHANGED svars /\ StatusOthers
    \/ \E c \in Stoppers : StopEnter(c) /\ UNCHANGED svars /\ StatusOthers
    \/ \E c \in Stoppers : StopClose(c) /\ UNCHANGED svars /\ StatusOthers
    \/ \E c \in Stoppers : StopWait(c) /\ UNCHANGED svars /\ StatusOthers
    \/ \E r \in Reqs, i \in InstanceIDs, cached \in BOOLEAN :
          queueMetadataFetch(r, i, cached) /\ StatusOthers
    \/ \E r \in Reqs : QueueFinish(r) /\ UNCHANGED svars /\ StatusOthers
    \/ \E i \in InstanceIDs : Cancel(i) /\ UNCHANGED svars /\ StatusOthers
    \/ \E w \in Workers : WorkerReceive(w) /\ UNCHANGED svars /\ StatusOthers
    \/ \E w \in Workers : Register(w) /\ UNCHANGED svars /\ StatusOthers
    \/ \E w \in Workers : LoopStep(w) /\ UNCHANGED svars /\ StatusOthers
    \/ \E w \in Workers : ResolveReturn(w) /\ UNCHANGED svars /\ StatusOthers
    \/ \E w \in Workers, dbOk \in BOOLEAN : onMetadataResolved(w, dbOk) /\ StatusOthers
    \/ \E w \in Workers : Cleanup(w) /\ UNCHANGED svars /\ StatusOthers
    \/ \E i \in InstanceIDs : ArtDone(i) /\ StatusOthers

\* ====================================================================
\* Activity-based process monitor (GamesService.monitorGameProcess)
\* ====================================================================
\* Clock readings are in units of 1/TicksPerSecond seconds.  The ticker
\* fires every second; the clock reading taken in the iteration for tick n
\* is n seconds plus the time the probe took, which is less than a second.
TicksPerSecond == 2

\* the monitor is followed for this many ticks
MaxProbes == 21

\* const stopThreshold = 10 * time.Second
stopThreshold == 10

MonitorInit ==
    /\ monTick = 0
    /\ hasBeenRunning = FALSE
    /\ lastSeenRunning = 0
    /\ monEnded = FALSE
    /\ events = <<>>
    /\ pattern = [detected |-> 0, missed |-> 0, clean |-> TRUE,
                  last |-> "none", at |-> 0, everHit |-> FALSE, lastHitAt |-> 0,
                  resumed |-> FALSE]

\* the launcher makes no BuildCommand call and the monitor has not run
LaunchIdle == CmdIdle /\ MonitorInit /\ SourceInit /\ ConfigInit /\ LaunchInit /\ StatusInit

\* the probe results so far are `detected` hits followed by `missed`
\* misses, or (clean = FALSE) something else; `last` is the latest probe's
\* result and `at` the clock reading taken after it, `lastHitAt` the
\* reading after the latest probe that found the process, and `resumed`
\* tells that a probe found the process again after a run of misses
Hit(now) ==
    [pattern EXCEPT !.detected = IF pattern.missed = 0 THEN @ + 1 ELSE @,
                    !.clean = pattern.clean /\ pattern.missed = 0,
                    !.last = "running", !.at = now, !.everHit = TRUE, !.lastHitAt = now,
                    !.resumed = @ \/ (pattern.everHit /\ pattern.last = "absent")]
Miss(now) == [pattern EXCEPT !.missed = @ + 1, !.last = "absent", !.at = now]
Failed(now) == [pattern EXCEPT !.clean = FALSE, !.last = "error", !.at = now]

EveryDetectionIsFirst == TRUE

\* if !hasBeenRunning { emit running }
FirstDetection == ~hasBeenRunning

StopsAtOnce(now) == TRUE

\* time.Since(lastSeenRunning) > stopThreshold
StopDue(now) == now - lastSeenRunning > stopThreshold * TicksPerSecond

\* one iteration of `for range ticker.C`: the probe fails, finds the
\* process, or does not find it; `delay` is the time the probe took
MonitorProbe(result, delay) ==
    /\ ~monEnded
    /\ monTick < MaxProbes
    /\ monTick' = monTick + 1
    /\ LET now == (monTick + 1) * TicksPerSecond + delay IN
         CASE result = "error" ->
                /\ pattern' = Failed(now)
                /\ UNCHANGED <<hasBeenRunning, lastSeenRunning, monEnded, events>>
           [] result = "running" ->
                /\ pattern' = Hit(now)
                /\ events' = IF FirstDetection THEN Append(events, "running") ELSE events
                /\ hasBeenRunning' = TRUE
                /\ lastSeenRunning' = now
                /\ UNCHANGED monEnded
           [] result = "absent" ->
                /\ pattern' = Miss(now)
                /\ IF hasBeenRunning /\ StopDue(now)
                     THEN /\ events' = Append(events, "stopped")
                          /\ monEnded' = TRUE
                     ELSE UNCHANGED <<events, monEnded>>
                /\ UNCHANGED <<hasBeenRunning, lastSeenRunning>>

MonNext ==
    \E result \in {"error", "running", "absent"}, delay \in 0..(TicksPerSecond - 1) :
        MonitorProbe(result, delay) /\ UNCHANGED <<fvars, evars, cmdIn, built, xvars>>

\* ------------------------------------------------------ specification
Init == FetcherInit /\ tracing = FALSE /\ EmuInit /\ LaunchIdle

\* One life of the fetcher, as GamesService drives it (games.go:76-112,
\* 303, 313): at least one resolver and the callback are set during
\* construction, Start is called on a fetcher whose queue has not been
\* closed, and Queue, Cancel and Stop are called from any thread at any
\* time.
\* what no Fetcher method touches
Others == UNCHANGED <<tracing, evars, lvars>>

\* the steps of the fetcher and of its callers
Next ==
    \/ RegisterResolver /\ Others
    \/ SetOnResolveCallback /\ Others
    \/ onResolve /\ nResolvers >= 1 /\ ~closed /\ Start /\ Others
    \/ \E c \in Stoppers : StopEnter(c) /\ Others
    \/ \E c \in Stoppers : StopClose(c) /\ Others
    \/ \E c \in Stoppers : StopWait(c) /\ Others
    \/ \E r \in Reqs, i \in InstanceIDs : QueueCall(r, i) /\ Others
    \/ \E r \in Reqs : QueueFinish(r) /\ Others
    \/ \E i \in InstanceIDs : Cancel(i) /\ Others
    \/ \E w \in Workers : WorkerReceive(w) /\ Others
    \/ \E w \in Workers : Register(w) /\ Others
    \/ \E w \in Workers : LoopStep(w) /\ Others
    \/ \E w \in Workers : ResolveReturn(w) /\ Others
    \/ \E w \in Workers : CallbackReturn(w) /\ Others
    \/ \E w \in Workers : Cleanup(w) /\ Others

Spec == Init /\ [][Next]_vars

\* The emulator service alone: the fetcher stays as constructed.
EmuSpec == Init /\ [][EmuNext]_vars

\* the call of BuildCommand on every input
CmdInit ==
    FetcherInit /\ tracing = FALSE /\ EmuInit /\ MonitorInit /\ SourceInit /\ ConfigInit /\ LaunchInit /\ StatusInit /\ cmdIn \in CmdInputs /\ built = NoBuild

CmdNext == BuildCommand /\ UNCHANGED <<fvars, evars, mvars, xvars>>

\* BuildCommand alone, called once on each input.
CmdSpec == CmdInit /\ [][CmdNext]_vars

\* The process monitor alone, against every sequence of probe results.
MonSpec == Init /\ [][MonNext]_vars

\* a step of a goroutine that is inside the fetcher: a worker, a Queue()
\* call blocked in its select, or a Stop() call past its locked section
InternalStep ==
    \/ \E w \in Workers : WorkerStep(w) /\ Others
    \/ \E r \in Reqs : QueueFinish(r) /\ Others
    \/ \E c \in Stoppers : (StopClose(c) \/ StopWait(c)) /\ Others

\* The Go scheduler does not leave every runnable goroutine waiting for
\* ever, and the timer of a blocked Queue() fires: while some goroutine
\* inside the fetcher can take a step, one of them does.
Fairness == WF_vars(InternalStep)

LiveSpec == Init /\ [][Next]_vars /\ Fairness

\* The resolver chain under observation: the same fetcher with the log
\* switched on.
ChainInit == FetcherInit /\ tracing = TRUE /\ EmuInit /\ LaunchIdle

ChainSpec == ChainInit /\ [][Next]_vars

SourceSpec == Init /\ [][SourceNext]_vars

ConfigSpec == Init /\ [][ConfigNext]_vars

\* seeding and discovery passes, each pass recorded
DiscoverNext ==
    \/ Initialize /\ FetcherIdle
    \/ \E es \in SUBSET {d.id : d \in DefaultEmulators},
          cs \in SUBSET {d.coreID : d \in DefaultCores} :
            DiscoverAvailable(es, cs) /\ FetcherIdle

DiscoverSpec == ChainInit /\ [][DiscoverNext]_vars

LaunchSpec == Init /\ [][LaunchNext]_vars

\* The fetcher with the metadata status GamesService persists.
StatusSpec == Init /\ [][StatusNext]_vars

\* The goroutines a launch starts run on, and the launched emulator
\* process exits (cmd.Wait returns).
LaunchFairness ==
    /\ WF_vars(SourceLaunchStep)
    /\ WF_vars(SteamLaunch /\ LauncherIdle)
    /\ WF_vars(MonitorRunning /\ LauncherIdle)
    /\ WF_vars(MonitorStopped /\ LauncherIdle)

LaunchLiveSpec == Init /\ [][LaunchNext]_vars /\ LaunchFairness

\* Start() called at any time, also after a Stop(): the steps of Next, and
\* Start on a fetcher whose queue has been closed
RestartNext ==
    \/ Next
    \/ onResolve /\ nResolvers >= 1 /\ closed /\ Start /\ Others

\* The fetcher with restarts.
RestartSpec == Init /\ [][RestartNext]_vars

\* ====================================================================
\* Claims
\* ====================================================================

\* C1: every request that Queue() accepted eventually reaches a terminal
\* state (resolved, exhausted or cancelled), also when it was still in the
\* queue when Stop() was called; none is dropped.
C1_AcceptedReachesTerminal ==
    \A r \in Reqs : (reqState[r] = "queued") ~> (reqState[r] \in Terminal)

\* a request that sat in the queue when Stop() ran has been processed
C1_Witness ==
    \E r \in queuedAtStop : reqState[r] \in Terminal

\* C2: each accepted request is received from the queue by exactly one
\* worker exactly once: it is never in the queue twice, never received
\* twice, never held by two workers, and it is received once it has left
\* the queue.
C2_ProcessedOnce ==
    \A r \in Reqs :
        /\ nProc[r] <= 1
        /\ Cardinality({w \in Workers : wreq[w] = r}) <= 1
        /\ Cardinality({k \in 1..Len(queue) : queue[k] = r}) <= 1
        /\ (reqState[r] = "queued") <=> (\E k \in 1..Len(queue) : queue[k] = r)
        /\ reqState[r] \in {"new", "sending", "queued", "notrunning", "full"} => nProc[r] = 0
        /\ reqState[r] \in ({"inflight"} \cup Terminal) => nProc[r] = 1
        /\ reqState[r] = "inflight" => \E w \in Workers : wreq[w] = r

\* both workers are processing a request at the same time
C2_Witness ==
    /\ \A w \in Workers : wreq[w] # 0 /\ wpc[w] = "resolving"
    /\ \A v, w \in Workers : v # w => wreq[v] # wreq[w]

\* C3: if the registry holds no handle for an instance id, no fetch for
\* that id is in flight.  Stated for the fetches the claim is least
\* demanding about: those that have registered their handle, have not been
\* cancelled and have not reached a terminal state.
C3_NoHandleNoFetch ==
    \A w \in Workers :
        (wpc[w] \in {"loop", "resolving", "callback"} /\ ~ctxDone[wreq[w]])
            => cancelMap[reqInst[wreq[w]]] # 0

\* C4: once a resolver's Resolve has succeeded for a request, no resolver
\* registered after it has Supports or Resolve invoked for that request.
C4_SuccessShortCircuits ==
    \A r \in Reqs : \A k \in 1..Len(log[r]) :
        log[r][k].op = "Ok" =>
            \A m \in (k+1)..Len(log[r]) :
                ~(/\ log[r][m].res > log[r][k].res
                  /\ log[r][m].op \in {"SupportsTrue", "SupportsFalse", "Resolve"})

\* the first of two resolvers succeeded and the request ended as resolved
C4_Witness ==
    \E r \in Reqs :
        /\ nResolvers >= 2
        /\ reqState[r] = "resolved"
        /\ \E k \in 1..Len(log[r]) : log[r][k] = LogEntry(1, "Ok")

\* C9: a Stop() called after a Stop() that shut the fetcher down has
\* returned does not panic, does not close the queue again, changes no
\* fetcher state and returns in the same step, without waiting.
C9_SecondStopIsNoOp ==
    [][\A c \in Stoppers :
          (shutdownDone /\ StopEnter(c)) =>
              /\ spc'[c] = "returned"
              /\ ~panicked'
              /\ UNCHANGED <<queue, closed, isRunning, cancelMap, wg, ctxDone,
                             wpc, wreq, widx, reqState>>]_vars

\* such a second call has been made and nothing panicked
C9_Witness ==
    lateStop /\ ~panicked /\ closed

\* C10: when any Stop() call on a started fetcher returns, every worker
\* has exited.
C10_StopIsBarrier ==
    [][\A c \in Stoppers :
          (started /\ spc[c] # "returned" /\ spc'[c] = "returned")
              => \A w \in Workers : wpc'[w] = "exited"]_vars

\* C11: the Stop() call that shuts the fetcher down signals the
\* cancellation token of every fetch a worker has received from the queue
\* and that has not reached a terminal state, wherever that worker is
\* between its receive and its registration.
C11_StopCancelsInFlight ==
    [][(isRunning /\ ~isRunning') =>
          \A w \in Workers :
              (wreq[w] # 0 /\ reqState[wreq[w]] = "inflight") => ctxDone'[wreq[w]]]_vars

\* C12: Queue(req) called before Start() or after Stop() has returned
\* gives the not-running error and leaves the queue, the registry and the
\* running flag as they were; a request so refused stays refused and is
\* never in the queue, never held and never received by a worker.
C12_QueueWhenNotRunning ==
    /\ [][\A r \in Reqs :
            /\ (\E i \in InstanceIDs : (~started \/ shutdownDone) /\ QueueCall(r, i)) =>
                  /\ reqState'[r] = "notrunning"
                  /\ UNCHANGED <<queue, cancelMap, isRunning>>
            /\ reqState[r] = "notrunning" => reqState'[r] = "notrunning"]_vars
    /\ [](\A r \in Reqs : reqState[r] = "notrunning" =>
            /\ nProc[r] = 0
            /\ \A k \in 1..Len(queue) : queue[k] # r
            /\ \A w \in Workers : wreq[w] # r)

\* a call made after an accepted one was refused, and Stop() has returned
C12_Witness ==
    /\ shutdownDone
    /\ \E r, q \in Reqs : /\ r < q
                           /\ reqState[r] \in Terminal
                           /\ reqState[q] = "notrunning"

\* the requests Queue() returned nil for
Accepted == {r \in Reqs : reqState[r] \in ({"queued", "inflight"} \cup Terminal)}

\* C13: with a queue of capacity QueueCap and more Queue() calls than
\* that on a running fetcher: the queue never holds more than QueueCap
\* requests, nothing panics, a call on a running fetcher either succeeds
\* or waits and then succeeds or returns queue-full, queue-full is returned
\* only by a call that waited with the queue full all along, and only
\* when at least QueueCap calls have succeeded.
C13_OverflowIsQueueFull ==
    /\ [](/\ Len(queue) <= QueueCap
          /\ ~panicked
          /\ \A r \in Reqs : reqState[r] = "sending" => Len(queue) = QueueCap
          /\ \A r \in Reqs : reqState[r] = "full" => Cardinality(Accepted) >= QueueCap)
    /\ [][\A r \in Reqs :
            /\ (reqState[r] # "full" /\ reqState'[r] = "full") =>
                  (reqState[r] = "sending" /\ Len(queue) = QueueCap)
            /\ (isRunning /\ reqState[r] = "new" /\ reqState'[r] # "new") =>
                  reqState'[r] \in {"queued", "sending"}
            /\ reqState[r] = "sending" => reqState'[r] \in {"sending", "queued", "full"}]_vars

\* a call has returned queue-full
C13_Witness ==
    \E r \in Reqs : reqState[r] = "full" /\ Cardinality(Accepted) >= QueueCap

\* C14: Cancel(i) touches instance i only.  With no handle for i it
\* changes nothing; otherwise it signals the token stored for i and removes
\* that entry.  The handles of the other instances, the tokens of their
\* requests, and the processing of every request stay as they were.
C14_CancelIsScoped ==
    [][\A i \in InstanceIDs : Cancel(i) =>
          /\ cancelMap[i] = 0 => UNCHANGED vars
          /\ cancelMap[i] # 0 => (ctxDone'[cancelMap[i]] /\ cancelMap'[i] = 0)
          /\ \A j \in InstanceIDs \ {i} : cancelMap'[j] = cancelMap[j]
          /\ \A r \in Reqs : reqInst[r] # i => ctxDone'[r] = ctxDone[r]
          /\ UNCHANGED <<queue, closed, isRunning, wg, wpc, wreq, widx, spc,
                         reqInst, reqState, nProc, panicked>>]_vars

\* on a fetcher that Stop() has not touched, one instance's fetch has been
\* cancelled while the registered fetch of another instance runs on,
\* unsignalled
C14_Witness ==
    /\ isRunning
    /\ \E v, w \in Workers :
          /\ wpc[v] \in {"loop", "resolving"} /\ wpc[w] \in {"loop", "resolving"}
          /\ reqInst[wreq[v]] # reqInst[wreq[w]]
          /\ ctxDone[wreq[v]] /\ cancelMap[reqInst[wreq[v]]] = 0
          /\ ~ctxDone[wreq[w]] /\ cancelMap[reqInst[wreq[w]]] = wreq[w]

\* C15: Cancel(i) made while a fetch for i that has registered its handle
\* is in flight signals the token of that fetch.  (This is what a handle
\* that stays registered until its own fetch ends would give, also to a
\* request queued again after an earlier cancellation of i.)
C15_CancelSignalsFetch ==
    [][\A i \in InstanceIDs : Cancel(i) =>
          \A w \in Workers :
              (/\ wpc[w] \in {"loop", "resolving", "callback"}
               /\ reqInst[wreq[w]] = i) => ctxDone'[wreq[w]]]_vars

\* C16 as stated: once the token of a fetch in flight has been signalled,
\* the fetch neither goes on to the callback nor ends as resolved or
\* exhausted.
C16_SignalledEndsSilently ==
    [][\A w \in Workers :
          (wpc[w] \in {"loop", "resolving"} /\ ctxDone[wreq[w]]) =>
              /\ wpc'[w] # "callback"
              /\ reqState'[wreq[w]] \notin {"resolved", "exhausted"}]_vars

\* C16, amended: a fetch ends in one terminal state and stays there, and
\* only a signalled fetch ends as cancelled.  A fetch whose token is
\* signalled when it is at a checkpoint (the check before a resolver is
\* consulted) ends there as cancelled, with no resolver consulted and no
\* callback.
C16_SeenAtCheckpointEndsSilently ==
    /\ [][\A r \in Reqs : reqState[r] \in Terminal => reqState'[r] = reqState[r]]_vars
    /\ [](\A r \in Reqs : reqState[r] = "cancelled" => ctxDone[r])
    /\ [][\A w \in Workers :
            (/\ wpc[w] = "loop" /\ widx[w] <= nResolvers /\ ctxDone[wreq[w]]
             /\ <<wpc[w], reqState[wreq[w]]>> # <<wpc'[w], reqState'[wreq[w]]>>) =>
                /\ wpc'[w] = "cleanup"
                /\ reqState'[wreq[w]] = "cancelled"
                /\ log' = log]_vars

\* a fetch was cancelled after one of its resolvers had been tried
C16_Witness ==
    \E w \in Workers : /\ wpc[w] = "cleanup"
                       /\ widx[w] > 1
                       /\ reqState[wreq[w]] = "cancelled"

\* the tokens of the command line without the ROM path
RestTokens(in) == BuildResult([in EXCEPT !.romPath = <<>>]).argv

\* C17: BuildCommand on an available flatpak emulator with the template
\* "... {flatpak_id} -L {core_lib_path} {args} {rom}" and a ROM path that
\* contains a space returns the tokens of the rest of the command line
\* followed by one token that is the ROM path, rune for rune.
C17_RomPathIsOneToken ==
    (/\ built # NoBuild
     /\ built.err = NoErr
     /\ cmdIn.emulator.type = "flatpak"
     /\ cmdIn.emulator.commandTemplate = RetroArchTemplate
     /\ Contains(cmdIn.romPath, SP))
        => built.argv = Append(RestTokens(cmdIn), cmdIn.romPath)

\* C18: when the probes so far are 9 hits followed by misses, the
\* monitor has emitted "running" once and nothing else up to the 9th miss,
\* and by the 11th miss it has emitted "running" then "stopped", once
\* each, and has returned.
C18_OneRunningOneStopped ==
    (pattern.clean /\ pattern.detected = 9) =>
        /\ pattern.missed <= 9 => (events = <<"running">> /\ ~monEnded)
        /\ pattern.missed >= 10 => (events \in {<<"running">>, <<"running", "stopped">>})
        /\ pattern.missed = 11 => (events = <<"running", "stopped">> /\ monEnded)
        /\ monEnded <=> events = <<"running", "stopped">>

\* 9 hits and 11 misses have been probed and the monitor has returned
C18_Witness ==
    /\ pattern.detected = 9 /\ pattern.missed = 11 /\ pattern.clean
    /\ monEnded
    /\ events = <<"running", "stopped">>

\* --------------------------------------------------------------------
\* Emulator resolution.  The tables are read as they are in the state in
\* which `resolved` holds a call: every action that writes a table clears
\* `resolved`.

\* a ResolveEmulator call has returned
Called == resolved # NoCall

\* the override row of the instance of the call, if any
OverrideOf(i) == {st \in instanceSettings : st.instanceID = i}

\* the emulator of mapping pe is marked available, and so is its core when
\* the mapping names one
MappingAvailable(pe) ==
    /\ \E e \in emulators : e.id = pe.emulatorID /\ e.isAvailable
    /\ (pe.coreID # "" =>
         \E c \in emulatorCores :
            c.emulatorID = pe.emulatorID /\ c.coreID = pe.coreID /\ c.isAvailable)

MappingsOf(p) == {pe \in platformEmulators : pe.platform = p}

\* the result is the pair of mapping pe
ResultIs(pe) ==
    /\ resolved.result.err = NoErr
    /\ resolved.result.emu.id = pe.emulatorID
    /\ IF pe.coreID = "" THEN resolved.result.core = NoCore
       ELSE resolved.result.core # NoCore /\ resolved.result.core.coreID = pe.coreID

\* the override names an emulator that is marked unavailable, or a core of
\* it that is marked unavailable
OverrideMarkedUnavailable(st) ==
    \E e \in emulators :
        /\ e.id = st.emulatorID
        /\ \/ ~e.isAvailable
           \/ /\ st.coreID # ""
              /\ \E c \in emulatorCores :
                    c.emulatorID = e.id /\ c.coreID = st.coreID /\ ~c.isAvailable

\* C5: with an override whose emulator (or referenced core) is marked
\* unavailable and an available platform default, ResolveEmulator returns
\* the platform default and no error.
C5_UnavailableOverrideFallsToDefault ==
    Called =>
        \A st \in OverrideOf(resolved.instance) :
            (/\ OverrideMarkedUnavailable(st)
             /\ \E pe \in MappingsOf(resolved.platform) : pe.isDefault /\ MappingAvailable(pe))
            => \E pe \in MappingsOf(resolved.platform) :
                  pe.isDefault /\ MappingAvailable(pe) /\ ResultIs(pe)

\* such a call returned the default although the override names another
\* emulator
C5_Witness ==
    /\ Called
    /\ \E st \in OverrideOf(resolved.instance) :
          /\ OverrideMarkedUnavailable(st)
          /\ \E pe \in MappingsOf(resolved.platform) :
                /\ pe.isDefault /\ MappingAvailable(pe) /\ ResultIs(pe)
                /\ pe.emulatorID # st.emulatorID

\* C6: with no override and no available default, but an available
\* non-default mapping, ResolveEmulator returns the first available mapping
\* in priority order and no error.
C6_FallbackToFirstAvailable ==
        (/\ Called
         /\ OverrideOf(resolved.instance) = {}
         /\ \A pe \in MappingsOf(resolved.platform) : pe.isDefault => ~MappingAvailable(pe)
         /\ \E pe \in MappingsOf(resolved.platform) : ~pe.isDefault /\ MappingAvailable(pe))
        => \E pe \in MappingsOf(resolved.platform) :
              /\ MappingAvailable(pe)
              /\ ResultIs(pe)
              /\ \A o \in MappingsOf(resolved.platform) :
                    MappingAvailable(o) => pe.priority <= o.priority

\* the default exists and is unavailable, and a non-default mapping was
\* returned
C6_Witness ==
    /\ Called
    /\ OverrideOf(resolved.instance) = {}
    /\ \E pe \in MappingsOf(resolved.platform) : pe.isDefault /\ ~MappingAvailable(pe)
    /\ \E pe \in MappingsOf(resolved.platform) : ~pe.isDefault /\ MappingAvailable(pe) /\ ResultIs(pe)

\* the call failed with the error that names its platform
FailedForPlatform ==
    /\ resolved.result.emu = NoEmu
    /\ resolved.result.core = NoCore
    /\ resolved.result.err # NoErr
    /\ resolved.result.err.platform = resolved.platform

\* C7 as claimed: for a platform with zero available pairs, with or
\* without an instance override, ResolveEmulator returns no emulator and an
\* error that identifies the platform.
C7_NoPairMeansError ==
    Called =>
        ((\A pe \in MappingsOf(resolved.platform) : ~MappingAvailable(pe))
            => FailedForPlatform)

\* the override can be used: its emulator exists and is available and the
\* core it names, if that core exists, is available
OverrideCanBeUsed(st) ==
    /\ \E e \in emulators : e.id = st.emulatorID /\ e.isAvailable
    /\ \A c \in emulatorCores :
          (c.emulatorID = st.emulatorID /\ c.coreID = st.coreID) => c.isAvailable

\* C7 amended: for a platform with zero available pairs, when the instance
\* has no override or an override that cannot be used, ResolveEmulator
\* returns no emulator and an error that identifies the platform.
C7_NoPairNoUsableOverrideMeansError ==
    Called =>
        ((/\ \A pe \in MappingsOf(resolved.platform) : ~MappingAvailable(pe)
          /\ \A st \in OverrideOf(resolved.instance) : ~OverrideCanBeUsed(st))
            => FailedForPlatform)

\* the platform has mappings, none available, the override is unusable,
\* and the call failed
C7_Witness ==
    /\ Called
    /\ MappingsOf(resolved.platform) # {}
    /\ \A pe \in MappingsOf(resolved.platform) : ~MappingAvailable(pe)
    /\ OverrideOf(resolved.instance) # {}
    /\ \A st \in OverrideOf(resolved.instance) : ~OverrideCanBeUsed(st)
    /\ FailedForPlatform

\* C8: whenever ResolveEmulator returns without error, the returned
\* emulator is marked available and the returned core, if any, is marked
\* available and belongs to the returned emulator.
C8_ResultIsAvailable ==
    (Called /\ resolved.result.err = NoErr) =>
        /\ resolved.result.emu # NoEmu
        /\ resolved.result.emu.isAvailable
        /\ resolved.result.emu \in emulators
        /\ (resolved.result.core # NoCore =>
              /\ resolved.result.core.isAvailable
              /\ resolved.result.core \in emulatorCores
              /\ resolved.result.core.emulatorID = resolved.result.emu.id)

\* a call returned an emulator with a core while another emulator of the
\* platform is unavailable
C8_Witness ==
    /\ Called
    /\ resolved.result.err = NoErr
    /\ resolved.result.core # NoCore
    /\ \E pe \in MappingsOf(resolved.platform) : ~MappingAvailable(pe)

\* the override names an available emulator and either no core or a core
\* that exists and is available
OverrideIsAvailable(st) ==
    /\ \E e \in emulators : e.id = st.emulatorID /\ e.isAvailable
    /\ (st.coreID # "" =>
          \E c \in emulatorCores :
             c.emulatorID = st.emulatorID /\ c.coreID = st.coreID /\ c.isAvailable)

\* the result is not the override's doing: it is one that steps 2 and 3
\* give for the platform
FellThrough == resolved.result \in ResolveByPlatform(resolved.platform)

\* C19: an override is used only if its emulator is available and it
\* names no core or a core that exists and is available; with any other
\* override (in particular one that names a core that is unavailable or
\* that cannot be found) the result is what the platform default and the
\* fallback give.
C19_OverrideNeedsItsCore ==
    Called =>
        \A st \in OverrideOf(resolved.instance) :
            ~OverrideIsAvailable(st) => FellThrough

\* the result is the pair the override names
ResultIsOverride(st) ==
    /\ resolved.result.err = NoErr
    /\ resolved.result.emu.id = st.emulatorID
    /\ IF st.coreID = "" THEN resolved.result.core = NoCore
       ELSE resolved.result.core # NoCore /\ resolved.result.core.coreID = st.coreID

\* the result is what step 1 makes of the override: its emulator, with
\* its core or (the core row not found) with none
ResultFromOverride(st) ==
    /\ resolved.result.err = NoErr
    /\ resolved.result.emu.id = st.emulatorID
    /\ (resolved.result.core = NoCore \/ resolved.result.core.coreID = st.coreID)

DefaultsOf(platform) ==
    {pe \in platformEmulators : pe.platform = platform /\ pe.isDefault}

\* C21: after any sequence of Initialize and SetPlatformDefault calls every
\* platform has at most one mapping marked as default
C21_AtMostOneDefault ==
    \A p \in Platforms : Cardinality(DefaultsOf(p)) <= 1

\* SetPlatformDefault has moved the default of a platform away from the
\* seeded one
C21_Witness ==
    \E pe \in platformEmulators :
        /\ pe.isDefault
        /\ ~isDefaultConfig(pe.platform, pe.emulatorID, pe.coreID)

\* ---------------------------------------------------------------- C22
\* C22: a write of the emulator-availability cache by
\* populateEmulatorAvailabilityCache never runs concurrently with a read of
\* it by getEmulatorAvailabilityForPlatform in another task
C22_CacheAccessIsExclusive ==
    ~(mapWrite # NoAccess /\ mapRead # NoAccess)

\* ---------------------------------------------------------------- C23
\* C23: config round trip: after SetFilters(f) on a Manager for path P has
\* returned without error, a new Manager created for the same path P
\* returns f from Get()
C23_RoundTrip ==
    (/\ cfgLast.op = "NewManager" /\ cfgLast.returned
     /\ cfgLast.expect # NoFilters)
        => cfgLast.holds = cfgLast.expect[1]

\* ---------------------------------------------------------------- C24
\* C24: a Manager made by NewManager for a path with no config file holds
\* the default configuration (ExcludeTools = true) and the file is
\* created, whatever SetFilters calls were made before on other Managers
C24_FreshManagerHoldsDefault ==
    (cfgLast.op = "NewManager" /\ cfgLast.fresh)
        => /\ cfgLast.holds = TRUE
           /\ files[cfgLast.path] # NoFile

\* ---------------------------------------------------------------- C25
Consulted == {"SupportsTrue", "SupportsFalse"}

\* C25: Resolve is invoked on a resolver for a request only right after
\* that resolver's Supports returned true for the request; a resolver
\* whose Supports returned false never has Resolve invoked for the
\* request, and the chain goes on with the next resolver: the fetch does
\* not end as resolved there, and ends as exhausted there only when the
\* resolver was the last one
C25_ResolveOnlyIfSupported ==
    \A r \in Reqs : \A k \in 1..Len(log[r]) :
        /\ log[r][k].op = "Resolve" =>
              (k > 1 /\ log[r][k-1] = LogEntry(log[r][k].res, "SupportsTrue"))
        /\ log[r][k].op = "SupportsFalse" =>
              /\ \A m \in 1..Len(log[r]) : log[r][m] # LogEntry(log[r][k].res, "Resolve")
              /\ k < Len(log[r]) =>
                    (log[r][k+1].res = log[r][k].res + 1 /\ log[r][k+1].op \in Consulted)
              /\ k = Len(log[r]) =>
                    /\ reqState[r] # "resolved"
                    /\ reqState[r] = "exhausted" => log[r][k].res = nResolvers

\* the first resolver did not support the request and the second one was
\* asked to resolve it
C25_Witness ==
    \E r \in Reqs :
        /\ Len(log[r]) >= 3
        /\ log[r][1] = LogEntry(1, "SupportsFalse")
        /\ log[r][2] = LogEntry(2, "SupportsTrue")
        /\ log[r][3] = LogEntry(2, "Resolve")

\* ---------------------------------------------------------------- C26
HasEntry(r, i, op) == \E k \in 1..Len(log[r]) : log[r][k] = LogEntry(i, op)

\* resolver i was consulted for r and did not resolve it
TriedAndFailed(r, i) == HasEntry(r, i, "SupportsFalse") \/ HasEntry(r, i, "Err")

Callbacks(r) == {k \in 1..Len(log[r]) : log[r][k].op = "Callback"}

\* the fetch of r has ended and no cancellation was ever signalled for it
EndedUncancelled(w) ==
    wpc[w] = "cleanup" /\ wreq[w] # 0 /\ ~ctxDone[wreq[w]]

\* C26: a fetch that is never cancelled ends as the reference says: the
\* callback is invoked exactly once, for the first resolver in registration
\* order that supports the request and succeeds, every resolver before it
\* having been consulted and having declined or failed; when no supporting
\* resolver succeeds every resolver was consulted and the callback is not
\* invoked.  No request ever has the callback invoked more than once.
C26_ChainMatchesReference ==
    /\ \A r \in Reqs : Cardinality(Callbacks(r)) <= 1
    /\ \A w \in Workers : EndedUncancelled(w) =>
          LET r == wreq[w] IN
          /\ reqState[r] \in {"resolved", "exhausted"}
          /\ reqState[r] = "resolved" =>
                \E i \in 1..nResolvers :
                    /\ HasEntry(r, i, "SupportsTrue") /\ HasEntry(r, i, "Ok")
                    /\ {log[r][k].res : k \in Callbacks(r)} = {i}
                    /\ \A j \in 1..(i-1) : TriedAndFailed(r, j)
          /\ reqState[r] = "exhausted" =>
                /\ Callbacks(r) = {}
                /\ \A i \in 1..nResolvers : TriedAndFailed(r, i)

\* the first resolver failed with an error and the second one resolved
\* the request
C26_Witness ==
    \E w \in Workers :
        /\ EndedUncancelled(w)
        /\ reqState[wreq[w]] = "resolved"
        /\ HasEntry(wreq[w], 1, "Err")
        /\ HasEntry(wreq[w], 2, "Callback")

\* ---------------------------------------------------------------- C27
\* no request is in the queue and no worker is processing one
NothingPending ==
    /\ queue = <<>>
    /\ \A w \in Workers : wpc[w] \in {"none", "idle", "exited"}

\* C27: the step in which a fetch that has ended as resolved, exhausted
\* or cancelled leaves processRequest removes the registry entry of its
\* instance id, and whenever no request is queued and no worker is
\* processing a request the Cancellation Registry is empty
C27_RegistryEmptyWhenIdle ==
    /\ [](NothingPending => \A i \in InstanceIDs : cancelMap[i] = 0)
    /\ [][\A w \in Workers :
            (wpc[w] = "cleanup" /\ wpc'[w] # "cleanup") =>
                (reqState[wreq[w]] \in Terminal /\ cancelMap'[reqInst[wreq[w]]] = 0)]_vars

\* two fetches of the same instance have both ended and nothing is pending
C27_Witness ==
    /\ NothingPending
    /\ \A r \in Reqs : reqState[r] \in Terminal
    /\ \A r, q \in Reqs : reqInst[r] = reqInst[q]

\* ---------------------------------------------------------------- C28
\* the clock reading after the latest probe is more than the threshold
\* past the reading after the latest probe that found the process
PastThreshold(p, q) == q.at - p.lastHitAt > stopThreshold * TicksPerSecond

\* C28: the monitor emits "running" at the first probe that finds the
\* process and at no other step; it emits "stopped" only at a probe that
\* does not find the process, more than 10 seconds after the last probe
\* that found it, and only after "running"; and when a probe finds the
\* process again after a run of misses that stayed within 10 seconds of
\* the last detection, no "stopped" has been emitted
C28_DebounceIsSafe ==
    [][/\ (events' = Append(events, "running"))
            <=> (pattern'.last = "running" /\ pattern'.at # pattern.at /\ ~pattern.everHit)
       /\ (events' # events /\ events' # Append(events, "running")) =>
            /\ events' = Append(events, "stopped")
            /\ pattern'.last = "absent"
            /\ pattern.everHit /\ PastThreshold(pattern, pattern')
            /\ events = <<"running">>
       /\ (pattern'.last = "absent" /\ ~PastThreshold(pattern, pattern')) => events' = events
       /\ (/\ pattern'.last = "running" /\ pattern.last = "absent" /\ pattern.everHit
           /\ ~PastThreshold(pattern, pattern)) =>
            (events' = <<"running">> /\ ~monEnded')]_vars

\* the process was found again after a run of misses, and after a later,
\* longer run the monitor emitted "stopped"
C28_Witness ==
    pattern.resumed /\ events = <<"running", "stopped">> /\ monEnded

\* ---------------------------------------------------------------- C29
StatusesOf(kind) ==
    {k \in 1..Len(launchStatuses) : launchStatuses[k].status = kind}

\* source.Launch has returned an error for this launch
SourceLaunchFailed == StatusesOf("failed") # {} /\ launchOf.source \in RegisteredSources

\* C29: when the source's Launch fails, the launch has emitted
\* "launching" and then one "failed" status that carries the error, and
\* nothing else: no "running", no "stopped", and no monitor is started;
\* and this stays so.  A "failed" status is emitted only then.
C29_FailedLaunchIsFinal ==
    /\ [](SourceLaunchFailed =>
            /\ Len(launchStatuses) = 2
            /\ launchStatuses[1] = [status |-> "launching", error |-> NoErr]
            /\ launchStatuses[2].status = "failed"
            /\ launchStatuses[2].error # NoErr
            /\ procMonitor = "none"
            /\ launchPc = "done")
    /\ [][SourceLaunchFailed => UNCHANGED <<launchStatuses, procMonitor>>]_vars
    /\ [][(launchPc = "spawned" /\ launchPc' = "done" /\ procMonitor' = "none")
             => SourceLaunchFailed']_vars

\* the emulator was resolved and the process started, but it was gone at
\* the liveness probe
C29_Witness ==
    /\ SourceLaunchFailed
    /\ launchStatuses[2].error.kind = "emulator failed to start"

\* ---------------------------------------------------------------- C30
\* C30: a discovery pass writes (and reports) the availability of exactly
\* the emulators and cores whose stored availability differs from the
\* probed one, and after the pass the stored availability of every
\* emulator and of every core equals its probed value
C30_DiscoveryMakesStoredEqualProbed ==
    lastPass # NoPass =>
        /\ lastPass.updated = lastPass.mismatched
        /\ \A e \in emulators : e.isAvailable = (e.id \in lastPass.installed)
        /\ \A c \in emulatorCores : c.isAvailable = (c.coreID \in lastPass.coreFiles)

\* ---------------------------------------------------------------- C31
\* C31: with Queue() and Stop() called concurrently and no Start after a
\* Stop, nothing is sent on the closed queue: no Queue() call is inside
\* its select once the queue is closed or the flag is down, a request
\* enters the queue only while the queue is open, Stop() flips the flag
\* only when no Queue() call is inside its select, a Queue() call made
\* after the flag was flipped returns not-running, and nothing panics.
C31_NoSendAfterClose ==
    /\ [](/\ ~panicked
          /\ \A r \in Reqs : reqState[r] = "sending" => (isRunning /\ ~closed))
    /\ [][/\ \A r \in Reqs :
               /\ (reqState[r] # "queued" /\ reqState'[r] = "queued") => ~closed
               /\ (started /\ ~isRunning /\ reqState[r] = "new" /\ reqState'[r] # "new") =>
                     (reqState'[r] = "notrunning" /\ queue' = queue)
          /\ (isRunning /\ ~isRunning') => Readers = {}
          /\ (~closed /\ closed') => Readers = {}]_vars

\* Stop() has flipped the flag and not yet closed the queue; a request was
\* accepted before, and a Queue() call made since was refused
C31_Witness ==
    /\ ~closed
    /\ \E c \in Stoppers : spc[c] = "close"
    /\ \E r, q \in Reqs : r < q /\ r \in Accepted /\ reqState[q] = "notrunning"

\* ---------------------------------------------------------------- C32
\* C32: Start() after a completed Stop() is tolerated: nothing panics (no
\* send on, and no second close of, the closed queue), and a Queue() call
\* made on the restarted fetcher is accepted.
C32_RestartIsTolerated ==
    /\ [](~panicked)
    /\ [][\A r \in Reqs :
            (closed /\ isRunning /\ reqState[r] = "new" /\ reqState'[r] # "new") =>
                reqState'[r] \in {"queued", "sending"}]_vars

\* ---------------------------------------------------------------- C33
\* C33: when every resolver call and callback returns, a Stop() call that
\* has taken the lock returns, and the lock that Stop, Cancel and the
\* workers wait for becomes free: every Queue() call blocked in its select
\* (holding the read lock) leaves it.
C33_StopTerminates ==
    /\ \A c \in Stoppers : (spc[c] \in {"close", "wait"}) ~> (spc[c] = "returned")
    /\ (Readers # {}) ~> (Readers = {})

\* Stop() has returned after a Queue() call had been blocked on the full
\* queue, and the request that filled the queue has been processed
C33_Witness ==
    /\ shutdownDone
    /\ \E r, q \in Reqs : reqState[r] = "full" /\ q \in queuedAtStop /\ reqState[q] \in Terminal

\* ---------------------------------------------------------------- C34
\* C34: Cancel(i) called while a request for i is accepted and still in
\* the queue does nothing to that request: the registry holds no handle
\* of it, its token is not signalled by the call, it stays in the queue
\* where it was, and with no other request for i around the call changes
\* no fetcher field at all.  When a worker later receives the request, its
\* token is unsignalled until the handle has been registered, and the
\* resolver loop starts at the first resolver.
C34_CancelOfQueuedIsNoOp ==
    /\ [][\A i \in InstanceIDs : Cancel(i) =>
            \A r \in QueuedFor(i) :
                /\ cancelMap[i] # r
                /\ ~ctxDone[r] /\ ~ctxDone'[r]
                /\ reqState'[r] = "queued" /\ queue' = queue
                /\ (\A q \in Reqs \ {r} : reqInst[q] # i) =>
                      (cancelMap[i] = 0 /\ UNCHANGED <<queue, closed, isRunning, cancelMap, wg, wpc, wreq, widx, spc,
                                 reqInst, reqState, ctxDone, log, nProc, panicked>>)]_vars
    /\ [](\A r \in cancelledInQueue :
            /\ reqState[r] \in ({"queued", "inflight"} \cup Terminal)
            /\ reqState[r] = "queued" => (~ctxDone[r] /\ nProc[r] = 0)
            /\ (\E w \in Workers : wreq[w] = r /\ wpc[w] = "register") => ~ctxDone[r])
    /\ [][\A w \in Workers :
            (wpc[w] = "register" /\ wpc'[w] # "register" /\ wreq[w] \in cancelledInQueue) =>
                (wpc'[w] = "loop" /\ widx'[w] = 1 /\ ~ctxDone'[wreq[w]]
                 /\ cancelMap'[reqInst[wreq[w]]] = wreq[w])]_vars

\* a request that was in the queue when Cancel() of its instance was
\* called has been resolved, its callback called
C34_Witness ==
    \E r \in cancelledInQueue :
        /\ reqState[r] = "resolved"
        /\ Callbacks(r) # {}

\* ---------------------------------------------------------------- C35
\* the statuses emitted for the launch, in order
StatusNames == [k \in 1..Len(launchStatuses) |-> launchStatuses[k].status]

\* C35: a launch of an emulated instance whose source Launch succeeded
\* emits "launching", then "running", then, when the process has exited,
\* "stopped": each once, and nothing else.
C35_LaunchingRunningStopped ==
    /\ procMonitor \in {"started", "waiting"} => StatusNames = <<"launching", "running">>
    /\ procMonitor = "ended" => StatusNames = <<"launching", "running", "stopped">>

\* ---------------------------------------------------------------- C36
\* C36: every launch that has emitted "launching" eventually emits
\* "failed" or "stopped", whatever the source of the instance, when the
\* launched process exits.
C36_LaunchReachesTerminal ==
    (StatusesOf("launching") # {}) ~> (StatusesOf("failed") \cup StatusesOf("stopped") # {})

\* ---------------------------------------------------------------- C37
\* the tokens of the custom arguments, as BuildCommand's tokenizer splits them
CustomTokens(customArgs) == parseCommandWithQuotes(customArgs)

\* C37: when the emulator the launch resolved is not the emulator of the
\* instance's override row (resolution fell back), the custom arguments
\* of the row are not passed to BuildCommand and are not in the command.
C37_CustomArgsFollowOverride ==
    (launchPc = "done" /\ launchOf.source = "emulated" /\ built # NoBuild) =>
        \A st \in GetInstanceEmulatorSettings(launchOf.instance) :
            (st.emulatorID # cmdIn.emulator.id /\ st.customArgs # <<>>) =>
                /\ cmdIn.customArgs = <<>>
                /\ \A k \in 1..Len(built.argv) :
                      \A j \in 1..Len(CustomTokens(st.customArgs)) :
                          built.argv[k] # CustomTokens(st.customArgs)[j]

\* ---------------------------------------------------------------- C38
\* C38: for every ROM path (with or without spaces, with or without
\* quote characters and backslashes) and every emulator, a successful
\* BuildCommand returns the tokens of the rest of the command line
\* followed by one token that is the ROM path, rune for rune.
C38_AnyRomPathIsOneToken ==
    (built # NoBuild /\ built.err = NoErr) =>
        built.argv = Append(RestTokens(cmdIn), cmdIn.romPath)

\* ---------------------------------------------------------------- C39
\* the fetch requests for instance i that are queued or in flight
Pending(i) ==
    {r \in Reqs : reqInst[r] = i /\ reqState[r] \in {"sending", "queued", "inflight"}}

\* C39: the persisted metadata status of an instance is "fetching" only
\* while a fetch request for it is queued or in flight (or its resolved
\* metadata is still being stored).
C39_FetchingOnlyWhilePending ==
    \A i \in InstanceIDs :
        metadataStatus[i] = "fetching" => (Pending(i) # {} \/ artJobs[i] > 0)

\* ---------------------------------------------------------------- C40
\* the callers that hold the write lock of Manager m inside Save
InSave(m) ==
    {c \in Callers : /\ cfgCall[c].op = "SetFilters" /\ cfgCall[c].at = "locked"
                     /\ cfgCall[c].mgr = m}

\* C40: every config Manager method releases exactly the lock it acquired:
\* no RUnlock of a mutex that is not read-locked ever aborts the process,
\* and the mutex of a Manager is write-locked only while a Save on it is in
\* progress, so that after Save, SetFilters or NewManager has returned the
\* mutex is free for later Get, Load and Save calls
C40_LocksAreReleased ==
    /\ ~crashed
    /\ \A m \in 1..Len(managers) : managers[m].locked => InSave(m) # {}

====
